---- MODULE Spec2Model ----
(***************************************************************************)
(* Keyword-match alerting pipeline of the ALERT dashboard:                 *)
(*   - the text matcher (lib/keywords.ts),                                 *)
(*   - the registry client (lib/changeDetection.ts),                       *)
(*   - the alert scanner (lib/alertCheck.ts and /api/alert/check),         *)
(*   - the notification dispatcher (/api/alert, /api/alert/send-email)     *)
(*     with the email builder and its templates (lib/email),               *)
(*   - the rate limiter of the API middleware (middleware.ts).             *)
(* Strings are sequences of one-character strings.                         *)
(***************************************************************************)
EXTENDS Integers, Sequences, FiniteSets, TLC

(***************************************************************************)
(* Bounds of the model.                                                    *)
(***************************************************************************)
MaxWatches == 2

MaxRecipients == 3

(***************************************************************************)
(* JavaScript string primitives.                                           *)
(***************************************************************************)
UpperLetters == <<"A","B","C","D","E","F","G","H","I","J","K","L","M",
                  "N","O","P","Q","R","S","T","U","V","W","X","Y","Z">>

LowerLetters == <<"a","b","c","d","e","f","g","h","i","j","k","l","m",
                  "n","o","p","q","r","s","t","u","v","w","x","y","z">>

Digits == <<"0","1","2","3","4","5","6","7","8","9">>

Range(s) == { s[i] : i \in DOMAIN s }

UpperSet == Range(UpperLetters)

LowerOf == [c \in UpperSet |->
              LowerLetters[CHOOSE i \in DOMAIN UpperLetters : UpperLetters[i] = c]]

\* String.prototype.toLowerCase on one character
ToLowerChar(c) == IF c \in UpperSet THEN LowerOf[c] ELSE c

\* String.prototype.toLowerCase
ToLowerCase(s) == [i \in DOMAIN s |-> ToLowerChar(s[i])]

\* the regular expression class \s
IsSpace(c) == c \in {" ", "\n", "\t"}

\* the regular expression class \w
WordChars == Range(UpperLetters) \cup Range(LowerLetters) \cup Range(Digits) \cup {"_"}

IsWordChar(c) == c \in WordChars

\* s.substring(from, to) with 0-based, end-exclusive indices
Substring(s, from, to) == SubSeq(s, from + 1, to)

\* true when kw occurs in s at the 0-based index i
OccursAt(s, kw, i) ==
    /\ i >= 0
    /\ i + Len(kw) <= Len(s)
    /\ SubSeq(s, i + 1, i + Len(kw)) = kw

\* an indexOf that gives the last occurrence instead of the first
IndexOf_Last(s, kw) ==
    LET hits == { i \in 0..(Len(s) - Len(kw)) : OccursAt(s, kw, i) }
    IN  IF hits = {} THEN -1 ELSE CHOOSE i \in hits : \A j \in hits : i >= j

\* String.prototype.indexOf: first 0-based index of kw in s, or -1
IndexOf(s, kw) ==
    LET hits == { i \in 0..(Len(s) - Len(kw)) : OccursAt(s, kw, i) }
    IN  IF hits = {} THEN -1 ELSE CHOOSE i \in hits : \A j \in hits : i <= j

\* String.prototype.includes
Includes(s, kw) == IndexOf(s, kw) # -1

\* String.prototype.trim
RECURSIVE TrimStart(_)
TrimStart(s) ==
    IF s # <<>> /\ IsSpace(Head(s)) THEN TrimStart(Tail(s)) ELSE s

RECURSIVE TrimEnd(_)
TrimEnd(s) ==
    IF s # <<>> /\ IsSpace(s[Len(s)]) THEN TrimEnd(SubSeq(s, 1, Len(s) - 1)) ELSE s

Trim(s) == TrimEnd(TrimStart(s))

\* least element of a non-empty set of integers
Least(S) == CHOOSE i \in S : \A j \in S : i <= j

\* s.replace(/<[^>]*>/g, " "): every tag, from "<" to the next ">", becomes
\* one space; a "<" with no ">" after it stays
RECURSIVE StripTags(_)
StripTags(s) ==
    LET opens == { i \in DOMAIN s : s[i] = "<" /\ \E j \in (i + 1)..Len(s) : s[j] = ">" }
    IN  IF opens = {} THEN s
        ELSE LET i == Least(opens)
                 j == Least({ k \in (i + 1)..Len(s) : s[k] = ">" })
             IN  SubSeq(s, 1, i - 1) \o <<" ">> \o StripTags(SubSeq(s, j + 1, Len(s)))

\* s.replace(/\s+/g, " "): every run of whitespace becomes one space
RECURSIVE CollapseSpaces(_)
CollapseSpaces(s) ==
    LET spaces == { i \in DOMAIN s : IsSpace(s[i]) }
    IN  IF spaces = {} THEN s
        ELSE LET i == Least(spaces)
             IN  SubSeq(s, 1, i - 1) \o <<" ">>
                   \o CollapseSpaces(TrimStart(SubSeq(s, i, Len(s))))

\* the zero-width assertion \b at the 0-based position i of s
WordBoundaryAt(s, i) ==
    LET before == i >= 1 /\ i <= Len(s) /\ IsWordChar(s[i])
        after  == i >= 0 /\ i < Len(s) /\ IsWordChar(s[i + 1])
    IN  before # after

\* true when new RegExp("\\b" + escapeRegExp(kw) + "\\b", "i") matches s at
\* the 0-based index i; escapeRegExp makes kw a literal
WordMatchAt(s, kw, i) ==
    /\ i >= 0
    /\ i + Len(kw) <= Len(s)
    /\ ToLowerCase(SubSeq(s, i + 1, i + Len(kw))) = ToLowerCase(kw)
    /\ WordBoundaryAt(s, i)
    /\ WordBoundaryAt(s, i + Len(kw))

\* regex.exec(s): index of the first word-boundary match, or -1
WordMatchIndex(s, kw) ==
    LET hits == { i \in 0..(Len(s) - Len(kw)) : WordMatchAt(s, kw, i) }
    IN  IF hits = {} THEN -1 ELSE CHOOSE i \in hits : \A j \in hits : i <= j

(***************************************************************************)
(* Text matcher (lib/keywords.ts).  A keyword row is [id, keyword].        *)
(***************************************************************************)
ContextRadius == 100

\* the normalisation of findKeywordsInText: lower-case, tags to spaces,
\* whitespace collapsed, trimmed
MatchText(text) == Trim(CollapseSpaces(StripTags(ToLowerCase(text))))

\* the filter callback of findKeywordsInText
KeywordMatches(lowerCaseText, keywordObj) ==
    IF keywordObj.keyword = <<>> THEN FALSE
    ELSE LET keywordLower == Trim(ToLowerCase(keywordObj.keyword))
         IN  \/ Includes(lowerCaseText, keywordLower)
             \/ WordMatchIndex(lowerCaseText, keywordLower) # -1

FindKeywordsInText(text, keywords) ==
    IF text = <<>> THEN <<>>
    ELSE LET lowerCaseText == MatchText(text)
             Keep(k) == KeywordMatches(lowerCaseText, k)
         IN  SelectSeq(keywords, Keep)

\* s.replace(/<name\b[^<]*(?:(?!<\/name>)<[^<]*)*<\/name>/gi, " "): a block
\* from "<name" (followed by a word boundary) to the first "</name>" after
\* it becomes one space; an opening without a closing stays
RECURSIVE RemoveBlocks(_, _)
RemoveBlocks(s, name) ==
    LET open   == <<"<">> \o name
        close  == <<"<", "/">> \o name \o <<">">>
        opens  == { i \in DOMAIN s :
                      /\ s[i] = "<"
                      /\ i + Len(open) - 1 <= Len(s)
                      /\ ToLowerCase(SubSeq(s, i, i + Len(open) - 1)) = open
                      /\ (i + Len(open) - 1 = Len(s) \/ ~IsWordChar(s[i + Len(open)]))
                      /\ \E j \in (i + Len(open))..(Len(s) - Len(close) + 1) :
                            ToLowerCase(SubSeq(s, j, j + Len(close) - 1)) = close }
    IN  IF opens = {} THEN s
        ELSE LET i == Least(opens)
                 j == Least({ k \in (i + Len(open))..(Len(s) - Len(close) + 1) :
                                ToLowerCase(SubSeq(s, k, k + Len(close) - 1)) = close })
             IN  SubSeq(s, 1, i - 1) \o <<" ">>
                   \o RemoveBlocks(SubSeq(s, j + Len(close), Len(s)), name)

\* the normalisation of extractKeywordContexts: script and style blocks and
\* tags to spaces, whitespace collapsed, trimmed (case kept)
CleanText(snapshotText) ==
    Trim(CollapseSpaces(StripTags(
        RemoveBlocks(RemoveBlocks(snapshotText, <<"s","c","r","i","p","t">>),
                     <<"s","t","y","l","e">>))))

MarkOpen == <<"<","m","a","r","k",">">>

MarkClose == <<"<","/","m","a","r","k",">">>

\* a replace without the "g" flag: only the first occurrence is wrapped
Highlight_FirstOnly(context, keyword) ==
    LET hits == { i \in 1..(Len(context) - Len(keyword) + 1) :
                    ToLowerCase(SubSeq(context, i, i + Len(keyword) - 1))
                       = ToLowerCase(keyword) }
    IN  IF hits = {} THEN context
        ELSE LET i == Least(hits)
             IN  SubSeq(context, 1, i - 1)
                   \o MarkOpen \o SubSeq(context, i, i + Len(keyword) - 1) \o MarkClose
                   \o SubSeq(context, i + Len(keyword), Len(context))

\* context.replace(new RegExp(escapeRegExp(keyword), "gi"), m => "<mark>" + m + "</mark>"):
\* the matches are taken left to right without overlap; the empty keyword
\* matches once before every character and once at the end
RECURSIVE Highlight(_, _)
Highlight(context, keyword) ==
    IF keyword = <<>>
    THEN LET pair  == MarkOpen \o MarkClose
             block == Len(pair) + 1
         IN  [p \in 1..(block * Len(context) + Len(pair)) |->
                 IF (p - 1) % block < Len(pair)
                 THEN pair[((p - 1) % block) + 1]
                 ELSE context[((p - 1) \div block) + 1]]
    ELSE LET hits == { i \in 1..(Len(context) - Len(keyword) + 1) :
                         ToLowerCase(SubSeq(context, i, i + Len(keyword) - 1))
                            = ToLowerCase(keyword) }
         IN  IF hits = {} THEN context
             ELSE LET i == Least(hits)
                  IN  SubSeq(context, 1, i - 1)
                        \o MarkOpen \o SubSeq(context, i, i + Len(keyword) - 1) \o MarkClose
                        \o Highlight(SubSeq(context, i + Len(keyword), Len(context)), keyword)

Max(a, b) == IF a >= b THEN a ELSE b

Min(a, b) == IF a <= b THEN a ELSE b

\* a callback that puts the leading marker one character too early
KeywordContext_MarkerAtRadius(cleanedText, keywordObj) ==
    LET keyword          == keywordObj.keyword
        keywordLower     == ToLowerCase(keyword)
        lowerCleanedText == ToLowerCase(cleanedText)
        plainIndex       == IndexOf(lowerCleanedText, keywordLower)
        keywordIndex     == IF plainIndex = -1
                            THEN WordMatchIndex(lowerCleanedText, keywordLower)
                            ELSE plainIndex
        contextStart     == Max(0, keywordIndex - ContextRadius)
        contextEnd       == Min(Len(cleanedText), keywordIndex + Len(keyword) + ContextRadius)
        context          == (IF keywordIndex >= ContextRadius THEN <<".",".",".">> ELSE <<>>)
                            \o Substring(cleanedText, contextStart, contextEnd)
                            \o (IF contextEnd < Len(cleanedText) THEN <<".",".",".">> ELSE <<>>)
    IN  IF keywordIndex = -1
        THEN [keyword |-> keyword, keywordId |-> keywordObj.id, context |-> <<>>,
              hasHighlightedContext |-> FALSE, highlightedContext |-> <<>>]
        ELSE [keyword |-> keyword, keywordId |-> keywordObj.id, context |-> context,
              hasHighlightedContext |-> TRUE,
              highlightedContext |-> Highlight(context, keyword)]

\* the map callback of extractKeywordContexts
KeywordContext(cleanedText, keywordObj) ==
    LET keyword          == keywordObj.keyword
        keywordLower     == ToLowerCase(keyword)
        lowerCleanedText == ToLowerCase(cleanedText)
        plainIndex       == IndexOf(lowerCleanedText, keywordLower)
        keywordIndex     == IF plainIndex = -1
                            THEN WordMatchIndex(lowerCleanedText, keywordLower)
                            ELSE plainIndex
        contextStart     == Max(0, keywordIndex - ContextRadius)
        contextEnd       == Min(Len(cleanedText), keywordIndex + Len(keyword) + ContextRadius)
        context          == (IF contextStart > 0 THEN <<".",".",".">> ELSE <<>>)
                            \o Substring(cleanedText, contextStart, contextEnd)
                            \o (IF contextEnd < Len(cleanedText) THEN <<".",".",".">> ELSE <<>>)
    IN  IF keywordIndex = -1
        THEN [keyword |-> keyword, keywordId |-> keywordObj.id, context |-> <<>>,
              hasHighlightedContext |-> FALSE, highlightedContext |-> <<>>]
        ELSE [keyword |-> keyword, keywordId |-> keywordObj.id, context |-> context,
              hasHighlightedContext |-> TRUE,
              highlightedContext |-> Highlight(context, keyword)]

ExtractKeywordContexts(snapshotText, matchedKeywords) ==
    LET cleanedText == CleanText(snapshotText)
    IN  [i \in DOMAIN matchedKeywords |-> KeywordContext(cleanedText, matchedKeywords[i])]

(***************************************************************************)
(* Inputs of one alert request.                                            *)
(***************************************************************************)
\* Math.floor(Date.now() / 1000) at the time of the scan
Now == 1700000000

\* values of the "hours" query parameter; <<>> is an absent or empty one
HoursParams == { <<>>, <<"7","2","0">>, <<"0">>, <<"7","2","1">>, <<"-","5">>, <<"x">>,
                 <<"2","4","h">> }

\* values of the "recent" query parameter
RecentParams == { "absent", "0", "1" }

\* values of the "email" query parameter; <<>> is an absent or empty one
EmailParams == { <<>>, <<"t","@","x">>, <<"t">> }

\* rows the keyword table can hold, as returned by ORDER BY keyword
KeywordBug == [id |-> 1, keyword |-> <<"b","u","g">>]

KeywordLeak == [id |-> 2, keyword |-> <<"L","e","a","k">>]

KeywordLists == { <<>>, <<KeywordBug, KeywordLeak>> }

\* bodies the registry can return for a snapshot
BodyEmpty == <<>>

BodyMatch == <<"<","p",">","A"," ","B","U","G","<","/","p",">">>

BodyNone == <<"<","b",">","o","k","<","/","b",">">>

SnapshotBodies == { BodyEmpty, BodyMatch, BodyNone }

\* no answer to a snapshot request (yet, or none was issued)
NoSnapshot == [kind |-> "none", body |-> <<>>]

\* outcomes of GET /api/v1/watch/{id}/history/latest
SnapshotOutcomes ==
    { [kind |-> "neterr", body |-> <<>>], [kind |-> "notok", body |-> <<>>] }
    \cup { [kind |-> "ok", body |-> b] : b \in SnapshotBodies }

\* values of a watch's last_changed: absent (or 0), a number of seconds, or
\* a value that is not a number
LastChangedValues(timeThreshold) ==
    { [kind |-> "absent", sec |-> 0],
      [kind |-> "num", sec |-> timeThreshold - 1],
      [kind |-> "num", sec |-> timeThreshold],
      [kind |-> "text", sec |-> 0] }

\* entries of the watch-list object: a WatchInfo, or a null entry
NullEntry == [isNull |-> TRUE, last_changed |-> [kind |-> "absent", sec |-> 0],
              last_error |-> FALSE]

WatchEntries(timeThreshold) ==
    { NullEntry } \cup
    { [isNull |-> FALSE, last_changed |-> lc, last_error |-> e] :
        lc \in LastChangedValues(timeThreshold), e \in BOOLEAN }

WatchLists(timeThreshold) ==
    UNION { [1..n -> WatchEntries(timeThreshold)] : n \in 0..MaxWatches }

\* outcomes of GET /api/v1/watch other than a parsable body
WatchListFailures == { "unreachable", "notok", "unparsable" }

\* addresses the email table can hold, in the order of ORDER BY
\* email_address; the last one has no "@"
Addresses == << <<"a","@","x">>, <<"b","@","x">>, <<"c","@","x">>, <<"d">> >>

\* results of SELECT email_address FROM email ORDER BY email_address
RecipientLists ==
    { SubSeq(Addresses, 1, n) : n \in 0..(IF MaxRecipients < Len(Addresses)
                                          THEN MaxRecipients ELSE Len(Addresses)) }

(***************************************************************************)
(* parseInt(raw): leading whitespace, an optional sign, then digits up to  *)
(* the first other character; NaN when there is no digit.                  *)
(***************************************************************************)
NaN == [nan |-> TRUE, v |-> 0]

DigitValue(c) == (CHOOSE i \in DOMAIN Digits : Digits[i] = c) - 1

RECURSIVE ParseDigits(_, _)
ParseDigits(s, acc) ==
    IF s # <<>> /\ Head(s) \in Range(Digits)
    THEN ParseDigits(Tail(s), acc * 10 + DigitValue(Head(s)))
    ELSE acc

ParseInt(raw) ==
    LET t      == TrimStart(raw)
        signed == t # <<>> /\ Head(t) \in {"-", "+"}
        body   == IF signed THEN Tail(t) ELSE t
        mag    == ParseDigits(body, 0)
    IN  IF body = <<>> \/ Head(body) \notin Range(Digits) THEN NaN
        ELSE [nan |-> FALSE, v |-> IF signed /\ Head(t) = "-" THEN -mag ELSE mag]

\* the validation without its upper bound
HoursInvalid_NoUpperBound(h) == h.nan \/ h.v < 1

\* isNaN(hours) || hours < 1 || hours > 720
HoursInvalid(h) == h.nan \/ h.v < 1 \/ h.v > 720

(***************************************************************************)
(* State of one request to /api/alert or /api/alert/check.                 *)
(***************************************************************************)
VARIABLES
    endpoint,        \* "alert" or "check"
    hours,           \* parseInt(searchParams.get("hours") || "24")
    checkRecent,     \* the recent flag as the handler reads it
    testMode,        \* test=1
    testEmail,       \* the email parameter, <<>> when absent
    hasApiKey,       \* getApiKeyOrErrorResponse finds a key
    pc,              \* where the handler is suspended
    response,        \* the HTTP response, status 0 while there is none
    keywordReply,    \* how the database answered the keyword query
    keywords,        \* rows loaded by fetchKeywords
    watchListReply,  \* how the registry answered the watch-list request
    watches,         \* entries of the watch list, in Object.entries order
    task,            \* state of the per-watch callback of each entry
    snapshots,       \* the registry's answer to each entry's snapshot request
    matches,         \* the matches array, in push order
    scanResult,      \* how checkForKeywordMatches settled
    emailReply,      \* how the database answered the email query
    emailAddresses,  \* recipients of the dispatch
    send,            \* state of the send of each recipient
    keywordQueries,  \* number of keyword table queries issued
    watchListCalls,  \* number of watch-list requests issued
    snapshotCalls,   \* uuids of the snapshot requests issued, in order
    emailQueries,    \* number of email table queries issued
    sendCalls,       \* addresses sendEmailViaSMTP was called for, in order
    mailCalls        \* messages handed to transporter.sendMail, in order

\* State of one run of the text matcher on its own.
VARIABLES
    snapshotText,    \* the text given to the matcher
    keywordList,     \* the keyword rows given to findKeywordsInText
    matchedKeywords, \* what findKeywordsInText returned
    keywordMatches,  \* what extractKeywordContexts returned
    textPc           \* "idle", "input", "matched" or "extracted"

\* State of one dispatch of alert messages on its own.
VARIABLES
    route,           \* "alert" (GET /api/alert) or "send-email" (POST /api/alert/send-email)
    customSubject,   \* customSubject of the POST body, <<>> when absent
    dispatchMatches, \* the matches array of the dispatch
    mailRecipients,  \* the emailAddresses array of the dispatch
    findings,        \* matches.map(...) in the findings format
    outbox,          \* mailOptions handed to transporter.sendMail, in order
    mailPc           \* "idle", "matches", "findings" or "sent"

\* State of the rate limiter of the API middleware.
VARIABLES
    clock,           \* Date.now(), in milliseconds since the first request
    ticks,           \* number of times the clock has advanced
    ipRequestCounts, \* the Map of the middleware: per key, count and timestamp
    lastRequest,     \* the request the middleware handled last, and its answer
    windowStart,     \* per key, the time of the first request of its window
    admitted         \* per key, the requests let through since windowStart

textVars == <<snapshotText, keywordList, matchedKeywords, keywordMatches, textPc>>

mailVars == <<route, customSubject, dispatchMatches, mailRecipients, findings, outbox, mailPc>>

limiterVars == <<clock, ticks, ipRequestCounts, lastRequest, windowStart, admitted>>

requestVars == <<endpoint, hours, checkRecent, testMode, testEmail, hasApiKey>>

scanVars == <<keywordReply, keywords, watchListReply, watches, task, snapshots, matches,
              scanResult>>

dispatchVars == <<emailReply, emailAddresses, send>>

ioVars == <<keywordQueries, watchListCalls, snapshotCalls, emailQueries, sendCalls, mailCalls>>

vars == <<requestVars, pc, response, scanVars, dispatchVars, ioVars, textVars, mailVars,
          limiterVars>>

NoResponse == [status |-> 0, message |-> "", emailsSent |-> 0, emailsFailed |-> 0,
               totalEmails |-> 0]

Reply(status, message) == [NoResponse EXCEPT !.status = status, !.message = message]

NoScanResult == [status |-> "none", message |-> ""]

\* checkRecent as each handler computes it from the "recent" parameter
ReadRecent(ep, recent) ==
    IF ep = "alert"
    THEN (IF recent # "absent" THEN recent = "1" ELSE TRUE)
    ELSE recent = "1"

\* no text matcher run of its own is in progress
TextIdle ==
    /\ snapshotText = <<>>
    /\ keywordList = <<>>
    /\ matchedKeywords = <<>>
    /\ keywordMatches = <<>>
    /\ textPc = "idle"

\* no dispatch of its own is in progress
MailIdle ==
    /\ route = "alert"
    /\ customSubject = <<>>
    /\ dispatchMatches = <<>>
    /\ mailRecipients = <<>>
    /\ findings = <<>>
    /\ outbox = <<>>
    /\ mailPc = "idle"

\* keys of ipRequestCounts: the x-forwarded-for header of two clients;
\* "unknown" is the key of every request without the header
Clients == { "203.0.113.7", "unknown" }

\* ipRequestCounts.get(ip) is undefined
NoEntry == [present |-> FALSE, count |-> 0, timestamp |-> 0]

\* no request has reached the middleware
NoRequest == [ip |-> "", api |-> FALSE, time |-> 0, status |-> 0, before |-> 0]

\* the Map is empty, as it is when the module is loaded
LimiterFresh ==
    /\ ipRequestCounts = [ip \in Clients |-> NoEntry]
    /\ lastRequest = NoRequest
    /\ windowStart = [ip \in Clients |-> -1]
    /\ admitted = [ip \in Clients |-> 0]

\* the middleware handles no request
LimiterIdle ==
    /\ clock = 0
    /\ ticks = 0
    /\ LimiterFresh

\* nothing has been done for the request yet
RequestFresh ==
    /\ response = NoResponse
    /\ keywordReply = "none"
    /\ keywords = <<>>
    /\ watchListReply = "none"
    /\ watches = <<>>
    /\ task = <<>>
    /\ snapshots = <<>>
    /\ matches = <<>>
    /\ scanResult = NoScanResult
    /\ emailReply = "none"
    /\ emailAddresses = <<>>
    /\ send = <<>>
    /\ keywordQueries = 0
    /\ watchListCalls = 0
    /\ snapshotCalls = <<>>
    /\ emailQueries = 0
    /\ sendCalls = <<>>
    /\ mailCalls = <<>>

Init ==
    /\ endpoint \in {"alert", "check"}
    /\ \E raw \in HoursParams :
          hours = ParseInt(IF raw = <<>> THEN <<"2","4">> ELSE raw)
    /\ \E recent \in RecentParams : checkRecent = ReadRecent(endpoint, recent)
    /\ testMode \in (IF endpoint = "alert" THEN BOOLEAN ELSE {FALSE})
    /\ testEmail \in (IF testMode THEN EmailParams ELSE {<<>>})
    /\ hasApiKey \in BOOLEAN
    /\ pc = "start"
    /\ RequestFresh
    /\ TextIdle
    /\ MailIdle
    /\ LimiterIdle

(***************************************************************************)
(* The handler up to its first await: parameter validation, the API key,   *)
(* then the keyword query of the scan is issued.                           *)
(***************************************************************************)
\* the rejections made before the scan starts; status 0 when there is none
ValidateRequest(ep, h, tm, te, key) ==
    IF HoursInvalid(h)
    THEN Reply(400, "Hours parameter must be between 1 and 720")
    ELSE IF ep = "alert" /\ tm /\ te # <<>> /\ ~Includes(te, <<"@">>)
    THEN Reply(400, "Invalid email format for test email")
    ELSE IF ~key
    THEN Reply(401, "API key is required")
    ELSE NoResponse

HandleRequest ==
    /\ pc = "start"
    /\ LET rejected == ValidateRequest(endpoint, hours, testMode, testEmail, hasApiKey)
       IN  IF rejected.status # 0
           THEN /\ response' = rejected
                /\ pc' = "done"
                /\ UNCHANGED keywordQueries
           ELSE /\ keywordQueries' = keywordQueries + 1
                /\ pc' = "keywords"
                /\ UNCHANGED response
    /\ UNCHANGED <<requestVars, scanVars, dispatchVars, watchListCalls, snapshotCalls,
                   emailQueries, sendCalls, mailCalls>>
    /\ UNCHANGED <<textVars, mailVars, limiterVars>>

(***************************************************************************)
(* Registry client (lib/changeDetection.ts).                               *)
(***************************************************************************)
\* replies of the registry to the watch-list request
WatchListReplies(timeThreshold) ==
    { [kind |-> k, watches |-> <<>>] : k \in WatchListFailures }
    \cup { [kind |-> "ok", watches |-> l] : l \in WatchLists(timeThreshold) }

\* fetchWatches answering a failure with an empty watch list
FetchWatches_EmptyOnFailure(reply) ==
    [failed |-> FALSE, watches |-> reply.watches]

\* fetchWatches: the parsed body, or an error response for an unreachable
\* registry, a non-success status or an unparsable body
FetchWatches(reply) ==
    IF reply.kind = "ok"
    THEN [failed |-> FALSE, watches |-> reply.watches]
    ELSE [failed |-> TRUE, watches |-> <<>>]

\* fetchLatestSnapshot without its catch: an error of the request escapes
FetchLatestSnapshot_NoCatch(outcome) ==
    IF outcome.kind = "ok" THEN [kind |-> "text", text |-> outcome.body]
    ELSE IF outcome.kind = "neterr" THEN [kind |-> "threw", text |-> <<>>]
    ELSE [kind |-> "null", text |-> <<>>]

\* fetchLatestSnapshot: the body, or null for a non-success status and for
\* any error of the request; kind "threw" is an error that escapes
FetchLatestSnapshot(outcome) ==
    IF outcome.kind = "ok"
    THEN [kind |-> "text", text |-> outcome.body]
    ELSE [kind |-> "null", text |-> <<>>]

(***************************************************************************)
(* Alert scanner (lib/alertCheck.ts; /api/alert/check inlines the same     *)
(* steps).                                                                 *)
(***************************************************************************)
\* now - hours * 3600
TimeThreshold(h) == Now - h.v * 3600

\* !watchInfo.last_changed
Falsy(lc) == lc.kind = "absent"

\* the comparison with <= in place of <
LessThan_Inclusive(lc, timeThreshold) == lc.kind = "num" /\ lc.sec <= timeThreshold

\* watchInfo.last_changed < timeThreshold; a value that is not a number
\* compares false
LessThan(lc, timeThreshold) == lc.kind = "num" /\ lc.sec < timeThreshold

\* new Date(last_changed * 1000).toISOString(); an invalid date throws
DateToISOString(lc) ==
    IF lc.kind = "num"
    THEN [threw |-> FALSE, value |-> [kind |-> "iso", sec |-> lc.sec]]
    ELSE [threw |-> TRUE, value |-> [kind |-> "null", sec |-> 0]]

\* the per-watch callback without the last_error check
StartTask_NoErrorSkip(watchInfo, recent, timeThreshold) ==
    IF watchInfo.isNull THEN "threw"
    ELSE IF recent /\ (watchInfo.last_changed.kind = "absent"
                         \/ (watchInfo.last_changed.kind = "num"
                              /\ watchInfo.last_changed.sec < timeThreshold))
    THEN "skipped"
    ELSE "fetching"

\* the per-watch callback up to its await: "threw", "skipped", or
\* "fetching" when the snapshot request is issued
StartTask(watchInfo, recent, timeThreshold) ==
    IF watchInfo.isNull THEN "threw"
    ELSE IF recent /\ (Falsy(watchInfo.last_changed)
                         \/ LessThan(watchInfo.last_changed, timeThreshold))
    THEN "skipped"
    ELSE IF watchInfo.last_error THEN "skipped"
    ELSE "fetching"

\* the per-watch callback without the matchedKeywords.length > 0 check
FinishTask_NoMatchCheck(uuid, watchInfo, outcome, kws) ==
    LET text    == IF outcome.kind = "ok" THEN outcome.body ELSE <<>>
        matched == FindKeywordsInText(text, kws)
        report  == [watchId |-> uuid,
                    lastChanged |-> IF watchInfo.last_changed.kind = "num"
                                    THEN [kind |-> "iso", sec |-> watchInfo.last_changed.sec]
                                    ELSE [kind |-> "null", sec |-> 0],
                    keywords |-> ExtractKeywordContexts(text, matched)]
    IN  IF text = <<>> THEN [state |-> "nosnapshot", reports |-> <<>>]
        ELSE IF watchInfo.last_changed.kind = "text"
        THEN [state |-> "threw", reports |-> <<>>]
        ELSE [state |-> "reported", reports |-> <<report>>]

\* the per-watch callback after its await: the state the task ends in and
\* the reports it pushes
FinishTask(uuid, watchInfo, outcome, kws) ==
    LET snapshot == FetchLatestSnapshot(outcome)
        matched  == FindKeywordsInText(snapshot.text, kws)
        iso      == DateToISOString(watchInfo.last_changed)
        report   == [watchId |-> uuid,
                     lastChanged |-> IF Falsy(watchInfo.last_changed)
                                     THEN [kind |-> "null", sec |-> 0]
                                     ELSE iso.value,
                     keywords |-> ExtractKeywordContexts(snapshot.text, matched)]
    IN  IF snapshot.kind = "threw" THEN [state |-> "threw", reports |-> <<>>]
        ELSE IF snapshot.kind = "null" \/ snapshot.text = <<>>
        THEN [state |-> "nosnapshot", reports |-> <<>>]
        ELSE IF Len(matched) > 0
        THEN (IF ~Falsy(watchInfo.last_changed) /\ iso.threw
              THEN [state |-> "threw", reports |-> <<>>]
              ELSE [state |-> "reported", reports |-> <<report>>])
        ELSE [state |-> "nomatch", reports |-> <<>>]

\* a combinator that fulfils as soon as one callback has returned
PromiseAll_Race(tasks) ==
    IF \E w \in DOMAIN tasks : tasks[w] = "threw" THEN "rejected"
    ELSE IF \A w \in DOMAIN tasks : tasks[w] = "fetching" /\ tasks # <<>> THEN "pending"
    ELSE "fulfilled"

\* await Promise.all(...) over the per-watch callbacks: it rejects as soon
\* as one callback has thrown and fulfils when every callback has returned;
\* "pending" while neither is the case
PromiseAll(tasks) ==
    IF \E w \in DOMAIN tasks : tasks[w] = "threw" THEN "rejected"
    ELSE IF \E w \in DOMAIN tasks : tasks[w] = "fetching" THEN "pending"
    ELSE "fulfilled"

\* how the scan settles with Promise.all
ScanSettles(settled) ==
    IF settled = "rejected"
    THEN [status |-> "threw", message |-> "watch callback error"]
    ELSE IF settled = "fulfilled"
    THEN [status |-> "returned", message |-> "Found URLs with keyword matches"]
    ELSE [status |-> "none", message |-> ""]

\* replies of the database to the keyword query
KeywordReplies ==
    { [kind |-> "error", rows |-> <<>>] }
    \cup { [kind |-> "rows", rows |-> l] : l \in KeywordLists }

\* fetchKeywords: the rows, or an error response when the query fails
FetchKeywords(reply) ==
    IF reply.kind = "rows"
    THEN [failed |-> FALSE, rows |-> reply.rows]
    ELSE [failed |-> TRUE, rows |-> <<>>]

\* a scan without the early return for an empty keyword list
KeywordStep_NoShortCircuit(fetched) ==
    IF fetched.failed THEN "throw" ELSE "watches"

\* what the scan does with the result of fetchKeywords: it throws on an
\* error response, returns at once when there is no keyword, and otherwise
\* goes on to the watch list
KeywordStep(fetched) ==
    IF fetched.failed THEN "throw"
    ELSE IF Len(fetched.rows) = 0 THEN "return"
    ELSE "watches"

\* the keyword query answers: a failure makes the scan throw, no keyword
\* makes it return at once, otherwise the watch-list request is issued
KeywordsResponse ==
    /\ pc = "keywords"
    /\ \E reply \in KeywordReplies :
          LET fetched == FetchKeywords(reply)
              step    == KeywordStep(fetched)
          IN  /\ keywordReply' = reply.kind
              /\ keywords' = fetched.rows
              /\ IF step = "throw"
                 THEN /\ scanResult' = [status |-> "threw",
                                        message |-> "Failed to fetch keywords from database"]
                      /\ pc' = "scanned"
                      /\ UNCHANGED watchListCalls
                 ELSE IF step = "return"
                 THEN /\ scanResult' = [status |-> "returned",
                                        message |-> "No keywords found in database"]
                      /\ pc' = "scanned"
                      /\ UNCHANGED watchListCalls
                 ELSE /\ watchListCalls' = watchListCalls + 1
                      /\ pc' = "watches"
                      /\ UNCHANGED scanResult
    /\ UNCHANGED <<requestVars, response, watchListReply, watches, task, snapshots, matches,
                   dispatchVars, keywordQueries, snapshotCalls, emailQueries, sendCalls,
                   mailCalls>>
    /\ UNCHANGED <<textVars, mailVars, limiterVars>>

\* the watch-list request answers: a failure makes the scan throw, otherwise
\* every per-watch callback runs up to its snapshot request and the scan
\* awaits them all
WatchesResponse ==
    /\ pc = "watches"
    /\ \E reply \in WatchListReplies(TimeThreshold(hours)) :
          LET fetched == FetchWatches(reply)
              started == [w \in DOMAIN fetched.watches |->
                            StartTask(fetched.watches[w], checkRecent, TimeThreshold(hours))]
              IsFetching(w) == started[w] = "fetching"
          IN  /\ watchListReply' = reply.kind
              /\ IF fetched.failed
                 THEN /\ scanResult' = [status |-> "threw",
                                        message |-> "Failed to fetch watches from changedetection.io"]
                      /\ pc' = "scanned"
                      /\ UNCHANGED <<watches, task, snapshots, snapshotCalls>>
                 ELSE /\ watches' = fetched.watches
                      /\ task' = started
                      /\ snapshots' = [w \in DOMAIN started |-> NoSnapshot]
                      /\ snapshotCalls' = SelectSeq([w \in DOMAIN started |-> w], IsFetching)
                      /\ scanResult' = ScanSettles(PromiseAll(started))
                      /\ pc' = IF PromiseAll(started) = "pending" THEN "tasks" ELSE "scanned"
    /\ UNCHANGED <<requestVars, response, keywordReply, keywords, matches, dispatchVars,
                   keywordQueries, watchListCalls, emailQueries, sendCalls, mailCalls>>
    /\ UNCHANGED <<textVars, mailVars, limiterVars>>

\* one snapshot request answers and its callback runs to the end; the scan
\* settles with it when Promise.all does
SnapshotResponse(w) ==
    /\ pc = "tasks"
    /\ w \in DOMAIN task
    /\ task[w] = "fetching"
    /\ \E outcome \in SnapshotOutcomes :
          LET finished == FinishTask(w, watches[w], outcome, keywords)
              tasks    == [task EXCEPT ![w] = finished.state]
          IN  /\ task' = tasks
              /\ snapshots' = [snapshots EXCEPT ![w] = outcome]
              /\ matches' = matches \o finished.reports
              /\ scanResult' = ScanSettles(PromiseAll(tasks))
              /\ pc' = IF PromiseAll(tasks) = "pending" THEN "tasks" ELSE "scanned"
    /\ UNCHANGED <<requestVars, response, keywordReply, keywords, watchListReply, watches,
                   dispatchVars, ioVars>>
    /\ UNCHANGED <<textVars, mailVars, limiterVars>>

(***************************************************************************)
(* Mail (lib/email/sendEmail.ts, lib/email/smtpService.ts).                *)
(***************************************************************************)
\* sendEmailViaSMTP up to transporter.sendMail: it throws for an address
\* without "@" and when SMTP is not configured
SendEmailViaSMTP(address, smtpConfigured) ==
    IF address = <<>> \/ ~Includes(address, <<"@">>) THEN "threw"
    ELSE IF ~smtpConfigured THEN "threw"
    ELSE "inflight"

\* a dispatch that gives up at the first recipient whose send throws at
\* once: the recipients after it are recorded as failed without a call
StartSends_StopAtFailure(addresses, smtpConfigured) ==
    [i \in DOMAIN addresses |->
        IF \E j \in 1..(i - 1) : SendEmailViaSMTP(addresses[j], smtpConfigured) = "threw"
        THEN [called |-> FALSE, state |-> "failed"]
        ELSE [called |-> TRUE,
              state |-> IF SendEmailViaSMTP(addresses[i], smtpConfigured) = "threw"
                        THEN "failed" ELSE "inflight"]]

\* the callback of emailAddresses.map up to its await, for every recipient:
\* sendAlertEmail calls sendEmailViaSMTP once, a throw is caught and
\* recorded as a failure
StartSends(addresses, smtpConfigured) ==
    [i \in DOMAIN addresses |->
        [called |-> TRUE,
         state |-> IF SendEmailViaSMTP(addresses[i], smtpConfigured) = "threw"
                   THEN "failed" ELSE "inflight"]]

\* the state of each recipient's send once the sends have started
SendStates(started) == [i \in DOMAIN started |-> started[i].state]

\* addresses sendEmailViaSMTP was called for when the sends started
SendCallsOf(addresses, started) ==
    LET Called(i) == started[i].called
        idx == SelectSeq([i \in DOMAIN addresses |-> i], Called)
    IN  [k \in DOMAIN idx |-> addresses[idx[k]]]

\* messages handed to the mail transport when the sends started
MailCallsOf(addresses, started, count) ==
    LET InFlight(i) == started[i].state = "inflight"
        idx == SelectSeq([i \in DOMAIN addresses |-> i], InFlight)
    IN  [k \in DOMAIN idx |-> [to |-> addresses[idx[k]], subject |-> count]]

(***************************************************************************)
(* The handlers after the scan.                                            *)
(***************************************************************************)
\* GET /api/alert/check: the response made from the scan
CheckResponse ==
    /\ pc = "scanned"
    /\ endpoint = "check"
    /\ response' = IF scanResult.status = "threw"
                   THEN Reply(500, "Failed to check for keyword matches")
                   ELSE Reply(200, scanResult.message)
    /\ pc' = "done"
    /\ watches' = <<>>
    /\ task' = <<>>
    /\ snapshots' = <<>>
    /\ UNCHANGED <<requestVars, keywordReply, keywords, watchListReply, matches, scanResult,
                   dispatchVars, ioVars>>
    /\ UNCHANGED <<textVars, mailVars, limiterVars>>

\* a handler that asks the database for recipients whatever the matches are
AfterScanStep_NoEmptyCheck(status, count, tm, te) ==
    IF status = "threw" THEN "throw"
    ELSE IF tm /\ te # <<>> THEN "test"
    ELSE "query"

\* what GET /api/alert does with the settled scan: a thrown scan goes to the
\* outer catch, no match returns at once, test mode with an address sends
\* to it, otherwise the email table is queried
AfterScanStep(status, count, tm, te) ==
    IF status = "threw" THEN "throw"
    ELSE IF count = 0 THEN "nomatch"
    ELSE IF tm /\ te # <<>> THEN "test"
    ELSE "query"

\* GET /api/alert after the scan: a thrown scan is a 500, no match is a 200
\* without email; in test mode the sends start at once, otherwise the
\* email table is queried
AlertAfterScan ==
    /\ pc = "scanned"
    /\ endpoint = "alert"
    /\ watches' = <<>>
    /\ task' = <<>>
    /\ snapshots' = <<>>
    /\ LET step == AfterScanStep(scanResult.status, Len(matches), testMode, testEmail)
       IN  CASE step = "throw" ->
                  /\ response' = Reply(500, "Failed to send email alerts")
                  /\ pc' = "done"
                  /\ UNCHANGED <<dispatchVars, emailQueries, sendCalls, mailCalls>>
             [] step = "nomatch" ->
                  /\ response' = Reply(200, "No matches found, no emails sent")
                  /\ pc' = "done"
                  /\ UNCHANGED <<dispatchVars, emailQueries, sendCalls, mailCalls>>
             [] step = "test" ->
                  \E smtpConfigured \in BOOLEAN :
                     LET started == StartSends(<<testEmail>>, smtpConfigured)
                     IN  /\ emailAddresses' = <<testEmail>>
                         /\ send' = SendStates(started)
                         /\ sendCalls' = sendCalls \o SendCallsOf(<<testEmail>>, started)
                         /\ mailCalls' = mailCalls
                                            \o MailCallsOf(<<testEmail>>, started, Len(matches))
                         /\ pc' = "sending"
                         /\ UNCHANGED <<response, emailReply, emailQueries>>
             [] step = "query" ->
                  /\ emailQueries' = emailQueries + 1
                  /\ pc' = "emails"
                  /\ UNCHANGED <<response, dispatchVars, sendCalls, mailCalls>>
    /\ UNCHANGED <<requestVars, keywordReply, keywords, watchListReply, matches, scanResult,
                   keywordQueries, watchListCalls, snapshotCalls>>
    /\ UNCHANGED <<textVars, mailVars, limiterVars>>

\* replies of the database to the email query
EmailReplies ==
    { [kind |-> "error", rows |-> <<>>] }
    \cup { [kind |-> "rows", rows |-> l] : l \in RecipientLists }

\* a handler that treats a failed email query as an empty recipient list
\* and goes on to the sends
EmailStep_IgnoreError(reply) ==
    IF reply.kind = "rows" /\ Len(reply.rows) = 0 THEN "empty" ELSE "send"

\* what GET /api/alert does with the answer of the email query
EmailStep(reply) ==
    IF reply.kind = "error" THEN "error"
    ELSE IF Len(reply.rows) = 0 THEN "empty"
    ELSE "send"

\* the email query answers: a failure is a 500, no address is a 404,
\* otherwise the sends start
EmailsResponse ==
    /\ pc = "emails"
    /\ \E reply \in EmailReplies :
          /\ emailReply' = reply.kind
          /\ CASE EmailStep(reply) = "error" ->
                    /\ response' = Reply(500, "Failed to fetch email addresses from database")
                    /\ pc' = "done"
                    /\ UNCHANGED <<emailAddresses, send, sendCalls, mailCalls>>
               [] EmailStep(reply) = "empty" ->
                    /\ response' = Reply(404, "No email addresses found in database")
                    /\ pc' = "done"
                    /\ UNCHANGED <<emailAddresses, send, sendCalls, mailCalls>>
               [] EmailStep(reply) = "send" ->
                    \E smtpConfigured \in BOOLEAN :
                       LET started == StartSends(reply.rows, smtpConfigured)
                       IN  /\ emailAddresses' = reply.rows
                           /\ send' = SendStates(started)
                           /\ sendCalls' = sendCalls \o SendCallsOf(reply.rows, started)
                           /\ mailCalls' = mailCalls
                                              \o MailCallsOf(reply.rows, started, Len(matches))
                           /\ pc' = "sending"
                           /\ UNCHANGED response
    /\ UNCHANGED <<requestVars, scanVars, keywordQueries, watchListCalls, snapshotCalls,
                   emailQueries>>
    /\ UNCHANGED <<textVars, mailVars, limiterVars>>

\* transporter.sendMail settles for one recipient
MailResult(i) ==
    /\ pc = "sending"
    /\ i \in DOMAIN send
    /\ send[i] = "inflight"
    /\ \E ok \in BOOLEAN : send' = [send EXCEPT ![i] = IF ok THEN "sent" ELSE "failed"]
    /\ UNCHANGED <<requestVars, pc, response, scanVars, emailReply, emailAddresses, ioVars>>
    /\ UNCHANGED <<textVars, mailVars, limiterVars>>

\* the counts of the response
CountSent(results) == Cardinality({ i \in DOMAIN results : results[i] = "sent" })

\* a tally that counts every settled send as sent
Tally_AllSent(results, addresses) ==
    [status |-> 200, message |-> "Email alerts sent",
     emailsSent |-> Len(results),
     emailsFailed |-> 0,
     totalEmails |-> Len(addresses)]

Tally(results, addresses) ==
    [status |-> 200, message |-> "Email alerts sent",
     emailsSent |-> CountSent(results),
     emailsFailed |-> Len(results) - CountSent(results),
     totalEmails |-> Len(addresses)]

\* Promise.allSettled fulfils when every send has settled: the response
\* carries the tally
DispatchReturn ==
    /\ pc = "sending"
    /\ \A i \in DOMAIN send : send[i] # "inflight"
    /\ response' = Tally(send, emailAddresses)
    /\ pc' = "done"
    /\ UNCHANGED <<requestVars, scanVars, dispatchVars, ioVars>>
    /\ UNCHANGED <<textVars, mailVars, limiterVars>>

Next ==
    \/ HandleRequest
    \/ KeywordsResponse
    \/ WatchesResponse
    \/ \E w \in 1..MaxWatches : SnapshotResponse(w)
    \/ CheckResponse
    \/ AlertAfterScan
    \/ EmailsResponse
    \/ \E i \in 1..MaxRecipients : MailResult(i)
    \/ DispatchReturn

Spec == Init /\ [][Next]_vars

\* The same handlers with the progress their scheduling guarantees: every
\* step of a handler runs once it is enabled, and the database, the
\* snapshot requests and the mail transport answer in the end.  The
\* watch-list request has no such guarantee: the registry may never answer
\* it, and fetchWatches passes no AbortSignal and sets no timer that would
\* end the wait.
LiveSpec ==
    /\ Init
    /\ [][Next]_vars
    /\ WF_vars(HandleRequest)
    /\ WF_vars(KeywordsResponse)
    /\ WF_vars(\E w \in 1..MaxWatches : SnapshotResponse(w))
    /\ WF_vars(CheckResponse)
    /\ WF_vars(AlertAfterScan)
    /\ WF_vars(EmailsResponse)
    /\ WF_vars(\E i \in 1..MaxRecipients : MailResult(i))
    /\ WF_vars(DispatchReturn)

(***************************************************************************)
(* The text matcher on its own: findKeywordsInText, then                   *)
(* extractKeywordContexts on the keywords it returned, as the scanner      *)
(* calls them.                                                             *)
(***************************************************************************)
\* filler before the interesting part of a text: n characters, the last a space
LeftPad(n) == [i \in 1..n |-> IF i = n THEN " " ELSE "x"]

\* filler after it: n characters, the first a space
RightPad(n) == [i \in 1..n |-> IF i = 1 THEN " " ELSE "y"]

\* filler lengths around the radius of the context window
PadLengths == {0, ContextRadius - 2, ContextRadius - 1, ContextRadius, ContextRadius + 1}

TextPlain == <<"A"," ","B","U","G">>

TextTagged == <<"<","p",">","A"," "," ","B","U","G","<","/","p",">">>

TextScript == <<"<","s","c","r","i","p","t",">","b","u","g","<","/","s","c","r","i","p","t",">","o","k">>

TextStyle == <<"<","s","t","y","l","e",">",".","l","e","a","k","{","}","<","/","s","t","y","l","e",">","B","u","g">>

TextTwice == <<"b","u","g"," ","B","u","g">>

TextInWord == <<"d","e","b","u","g">>

TextBoth == <<"L","e","a","k",":"," ","b","u","g">>

TextNoMatch == <<"o","k">>

TextMiddles == {TextPlain, TextTagged, TextScript, TextStyle, TextTwice, TextInWord,
                TextBoth, TextNoMatch}

\* a late second occurrence of a keyword, or nothing
TextTails == { <<>>, <<" ","B","U","G">> }

\* snapshot texts
Texts ==
    { <<>> } \cup
    { LeftPad(a) \o m \o RightPad(b) \o t :
        a \in PadLengths, m \in TextMiddles, b \in PadLengths, t \in TextTails }

KeywordPadded == [id |-> 3, keyword |-> <<"b","u","g"," ">>]

KeywordBlank == [id |-> 4, keyword |-> <<" "," ">>]

KeywordEmpty == [id |-> 5, keyword |-> <<>>]

\* keyword rows given to the matcher
KeywordInputs ==
    { <<>>,
      <<KeywordBug, KeywordLeak>>,
      <<KeywordLeak, KeywordPadded, KeywordBug>>,
      <<KeywordEmpty, KeywordBlank, KeywordBug>> }

\* no request is being handled
RequestIdle ==
    /\ endpoint = "check"
    /\ hours = ParseInt(<<"2","4">>)
    /\ checkRecent = FALSE
    /\ testMode = FALSE
    /\ testEmail = <<>>
    /\ hasApiKey = FALSE
    /\ pc = "idle"
    /\ RequestFresh

TextInit ==
    /\ RequestIdle
    /\ snapshotText \in Texts
    /\ keywordList \in KeywordInputs
    /\ matchedKeywords = <<>>
    /\ keywordMatches = <<>>
    /\ textPc = "input"
    /\ MailIdle
    /\ LimiterIdle

\* const matchedKeywords = findKeywordsInText(snapshotText, keywords)
FindMatches ==
    /\ textPc = "input"
    /\ matchedKeywords' = FindKeywordsInText(snapshotText, keywordList)
    /\ textPc' = "matched"
    /\ UNCHANGED <<snapshotText, keywordList, keywordMatches>>
    /\ UNCHANGED <<requestVars, pc, response, scanVars, dispatchVars, ioVars>>
    /\ UNCHANGED <<mailVars, limiterVars>>

\* if (matchedKeywords.length > 0) extractKeywordContexts(snapshotText, matchedKeywords)
ExtractContexts ==
    /\ textPc = "matched"
    /\ Len(matchedKeywords) > 0
    /\ keywordMatches' = ExtractKeywordContexts(snapshotText, matchedKeywords)
    /\ textPc' = "extracted"
    /\ UNCHANGED <<snapshotText, keywordList, matchedKeywords>>
    /\ UNCHANGED <<requestVars, pc, response, scanVars, dispatchVars, ioVars>>
    /\ UNCHANGED <<mailVars, limiterVars>>

TextNext ==
    \/ FindMatches
    \/ ExtractContexts

TextSpec == TextInit /\ [][TextNext]_vars

(***************************************************************************)
(* The dispatch on its own (lib/email/templates.ts, emailBuilder.ts,       *)
(* sendEmail.ts, and the sending part of GET /api/alert and of             *)
(* POST /api/alert/send-email).  A rendered string is a sequence of        *)
(* pieces: the literal text of a template, or an interpolated value.       *)
(* The style attributes of the HTML templates and the head of the HTML     *)
(* document are left out of the literal pieces.                            *)
(***************************************************************************)
MaxFindings == 2

\* a piece of literal template text
Lit(s) == [lit |-> s, val |-> <<>>]

\* an interpolated string
Val(v) == [lit |-> "", val |-> v]

\* a rendered string is the empty string (a falsy value)
IsEmptyString(pieces) == \A i \in DOMAIN pieces : pieces[i].lit = "" /\ pieces[i].val = <<>>

\* Array.prototype.join on rendered strings
RECURSIVE Join(_, _)
Join(items, separator) ==
    IF items = <<>> THEN <<>>
    ELSE IF Len(items) = 1 THEN items[1]
    ELSE items[1] \o separator \o Join(Tail(items), separator)

\* String.prototype.toUpperCase on one character
ToUpperChar(c) ==
    IF c \in Range(LowerLetters)
    THEN UpperLetters[CHOOSE i \in DOMAIN LowerLetters : LowerLetters[i] = c]
    ELSE c

\* String(n) of a non-negative integer
RECURSIVE NumberToString(_)
NumberToString(n) ==
    IF n < 10 THEN <<Digits[n + 1]>>
    ELSE NumberToString(n \div 10) \o <<Digits[(n % 10) + 1]>>

\* two digits, as the "2-digit" fields of toLocaleString
TwoDigits(n) == IF n < 10 THEN <<"0">> \o NumberToString(n) ELSE NumberToString(n)

\* formatDate of an instant of 14 November 2023 on a server in UTC
FormatDate(sec) ==
    LET ofDay  == sec % 86400
        hour24 == ofDay \div 3600
        hour12 == IF hour24 % 12 = 0 THEN 12 ELSE hour24 % 12
    IN  <<"N","o","v"," ","1","4",","," ","2","0","2","3",","," ">>
          \o TwoDigits(hour12) \o <<":">> \o TwoDigits((ofDay % 3600) \div 60)
          \o <<":">> \o TwoDigits(ofDay % 60)
          \o (IF hour24 < 12 THEN <<" ","A","M">> ELSE <<" ","P","M">>)
          \o <<" ","U","T","C">>

\* createFinding
CreateFinding(url, keywordStrings, timestamp, siteName, context, highlightedContext) ==
    [url |-> url, keywords |-> keywordStrings, findingTime |-> FormatDate(timestamp),
     siteName |-> siteName, context |-> context, highlightedContext |-> highlightedContext]

\* the callback of matches.map in the two routes: the contexts of the
\* keywords are combined into one context and one highlighted context
MatchToFinding(match) ==
    LET ks          == match.keywords
        HasContext(k) == k.context # <<>>
        HasAny(k)     == k.highlightedContext # <<>> \/ k.context # <<>>
        Plain(k)      == <<Lit("\""), Val(k.keyword), Lit("\": "), Val(k.context)>>
        Marked(k)     == <<Lit("<div style=\"margin-bottom: 8px;\"><strong>\""), Val(k.keyword),
                           Lit("\"</strong>: "),
                           Val(IF k.highlightedContext # <<>> THEN k.highlightedContext
                               ELSE k.context),
                           Lit("</div>")>>
        withContext == SelectSeq(ks, HasContext)
        withAny     == SelectSeq(ks, HasAny)
        combinedContext ==
            IF Len(ks) = 0 THEN <<>>
            ELSE IF Len(ks) = 1
            THEN (IF ks[1].context # <<>> THEN <<Val(ks[1].context)>> ELSE <<>>)
            ELSE Join([i \in DOMAIN withContext |-> Plain(withContext[i])], <<Lit("\n\n")>>)
        combinedHighlightedContext ==
            IF Len(ks) = 0 THEN <<>>
            ELSE IF Len(ks) = 1
            THEN (IF ks[1].highlightedContext # <<>>
                  THEN <<Val(ks[1].highlightedContext)>> ELSE <<>>)
            ELSE Join([i \in DOMAIN withAny |-> Marked(withAny[i])], <<>>)
        timestamp   == IF match.lastChanged.kind = "iso" THEN match.lastChanged.sec ELSE Now
    IN  CreateFinding(match.url, [i \in DOMAIN ks |-> ks[i].keyword], timestamp, match.title,
                      combinedContext, combinedHighlightedContext)

\* extractUserNameFromEmail
ExtractUserNameFromEmail(email) ==
    LET at       == IndexOf(email, <<"@">>)
        username == IF at = -1 THEN email ELSE Substring(email, 0, at)
    IN  IF email = <<>> THEN <<>>
        ELSE [i \in DOMAIN username |->
                 IF i = 1 THEN ToUpperChar(username[i])
                 ELSE IF username[i] \in {".", "_"} THEN " "
                 ELSE username[i]]

\* greetings.text
GreetingText(email) ==
    <<Lit("Hello")>>
      \o (IF email # <<>> THEN <<Lit(" "), Val(ExtractUserNameFromEmail(email))>> ELSE <<>>)
      \o <<Lit(",")>>

\* greetings.html
GreetingHtml(email) ==
    <<Lit("<p>Hello")>>
      \o (IF email # <<>>
          THEN <<Lit(" <strong>"), Val(ExtractUserNameFromEmail(email)), Lit("</strong>")>>
          ELSE <<>>)
      \o <<Lit(",</p>")>>

\* the count phrase of alertIntro
FindingsPhrase(totalFindings) ==
    IF totalFindings = 1 THEN <<Lit("a new keyword match")>>
    ELSE <<Val(NumberToString(totalFindings)), Lit(" new keyword matches")>>

\* alertIntro.text
AlertIntroText(totalFindings) ==
    <<Lit("We've detected ")>> \o FindingsPhrase(totalFindings)
      \o <<Lit(" in your monitored darkweb sites.")>>

\* alertIntro.html
AlertIntroHtml(totalFindings) ==
    <<Lit("<p>We've detected <strong>")>> \o FindingsPhrase(totalFindings)
      \o <<Lit("</strong> in your monitored darkweb sites.</p>")>>

\* contextDisplay.text
ContextDisplayText(context) ==
    IF ~IsEmptyString(context)
    THEN <<Lit("\nContext: \"")>> \o context \o <<Lit("\"")>>
    ELSE <<>>

\* contextDisplay.html
ContextDisplayHtml(context, highlightedContext) ==
    IF IsEmptyString(context) /\ IsEmptyString(highlightedContext) THEN <<>>
    ELSE <<Lit("\n<div style=\"margin: 8px 0; padding: 8px;\">\n  <p><strong>Context:</strong></p>\n  <p style=\"font-family: monospace;\">")>>
           \o (IF ~IsEmptyString(highlightedContext) THEN highlightedContext ELSE context)
           \o <<Lit("</p>\n</div>")>>

\* vars.siteName || vars.url
SiteOrUrl(v) == IF v.siteName # <<>> THEN v.siteName ELSE v.url

\* singleFinding.text
SingleFindingText(v) ==
    <<Lit("ALERT: Keyword \""), Val(v.keywords[1]), Lit("\" was found at "), Val(SiteOrUrl(v)),
      Lit(" at "), Val(v.findingTime), Lit(".\nURL: "), Val(v.url)>>
      \o ContextDisplayText(v.context)

\* singleFinding.html
SingleFindingHtml(v) ==
    <<Lit("<div><p><strong>ALERT:</strong> Keyword \"<strong>"), Val(v.keywords[1]),
      Lit("</strong>\" was found at "), Val(SiteOrUrl(v)), Lit(" at <em>"), Val(v.findingTime),
      Lit("</em>.</p><p>URL: <a href=\""), Val(v.url), Lit("\">"), Val(v.url),
      Lit("</a></p>")>>
      \o ContextDisplayHtml(v.context, v.highlightedContext)
      \o <<Lit("</div>")>>

\* multipleFindings.text
MultipleFindingsText(v) ==
    <<Lit("ALERT: ")>>
      \o (IF Len(v.keywords) > 0
          THEN Join([i \in DOMAIN v.keywords |-> <<Lit("\""), Val(v.keywords[i]), Lit("\"")>>],
                    <<Lit(", ")>>)
          ELSE <<Lit("multiple keywords")>>)
      \o <<Lit(" were found at "), Val(SiteOrUrl(v)), Lit(" at "), Val(v.findingTime),
           Lit(".\nURL: "), Val(v.url)>>
      \o ContextDisplayText(v.context)

\* multipleFindings.html
MultipleFindingsHtml(v) ==
    <<Lit("<div><p><strong>ALERT:</strong> Keywords ")>>
      \o (IF Len(v.keywords) > 0
          THEN Join([i \in DOMAIN v.keywords |->
                        <<Lit("<strong>\""), Val(v.keywords[i]), Lit("\"</strong>")>>],
                    <<Lit(", ")>>)
          ELSE <<Lit("<strong>multiple keywords</strong>")>>)
      \o <<Lit(" were found at "), Val(SiteOrUrl(v)), Lit(" at <em>"), Val(v.findingTime),
           Lit("</em>.</p><p>URL: <a href=\""), Val(v.url), Lit("\">"), Val(v.url),
           Lit("</a></p>")>>
      \o ContextDisplayHtml(v.context, v.highlightedContext)
      \o <<Lit("</div>")>>

\* actionInstructions, signature and disclaimer, text
ClosingText ==
    <<Lit("Please log in to your monitoring dashboard to review the findings and take appropriate action."),
      Lit("\n\n"),
      Lit("\nBest regards,\nThe ALERT Team"),
      Lit("\n---\nThis is an automated alert. Please do not reply directly to this email.\nIf you need assistance, please contact your system administrator.")>>

\* actionInstructions, signature and disclaimer, HTML
ClosingHtml ==
    <<Lit("<p>Please <a href=\"/\">log in to your monitoring dashboard</a> to review the findings and take appropriate action.</p>"),
      Lit("<p>Best regards,<br>\nThe ALERT Team</p>"),
      Lit("<hr>\n<p>This is an automated alert. Please do not reply directly to this email.<br>\n  If you need assistance, please contact your system administrator.\n</p>")>>

\* the variables buildAlertEmail hands to the finding templates: url,
\* findingTime, keywords and siteName; context and highlightedContext are
\* not among them, so the templates read undefined for both
TemplateVariables(finding) ==
    [keywords |-> finding.keywords, url |-> finding.url, findingTime |-> finding.findingTime,
     siteName |-> finding.siteName, context |-> <<>>, highlightedContext |-> <<>>]

\* the text of the findings section from the finding number index on
RECURSIVE FindingsText(_, _)
FindingsText(fs, index) ==
    IF index > Len(fs) THEN <<>>
    ELSE LET v == TemplateVariables(fs[index])
         IN  (IF Len(v.keywords) = 1 THEN SingleFindingText(v) ELSE MultipleFindingsText(v))
               \o <<Lit("\n\n")>>
               \o (IF index < Len(fs) THEN <<Lit("\n")>> ELSE <<>>)
               \o FindingsText(fs, index + 1)

\* the HTML of the findings section from the finding number index on
RECURSIVE FindingsHtml(_, _)
FindingsHtml(fs, index) ==
    IF index > Len(fs) THEN <<>>
    ELSE LET v == TemplateVariables(fs[index])
         IN  (IF Len(v.keywords) = 1 THEN SingleFindingHtml(v) ELSE MultipleFindingsHtml(v))
               \o (IF index < Len(fs) THEN <<Lit("<div style=\"margin: 10px 0;\"></div>")>>
                   ELSE <<>>)
               \o FindingsHtml(fs, index + 1)

\* an unsubscribe footer that names the recipient
BuildAlertEmail_FooterPerRecipient(email, fs) ==
    [text |-> GreetingText(email) \o <<Lit("\n\n")>>
                \o AlertIntroText(Len(fs)) \o <<Lit("\n\n")>>
                \o FindingsText(fs, 1) \o ClosingText
                \o <<Lit("\n---\nTo unsubscribe: "), Val(email)>>,
     html |-> <<Lit("<!DOCTYPE html>\n<html>\n<head>...</head>\n<body>\n  ")>>
                \o GreetingHtml(email) \o AlertIntroHtml(Len(fs))
                \o <<Lit("<div style=\"margin: 20px 0;\">")>>
                \o FindingsHtml(fs, 1) \o <<Lit("</div>")>> \o ClosingHtml
                \o <<Lit("<hr>To unsubscribe: "), Val(email)>>
                \o <<Lit("\n</body>\n</html>")>>]

\* buildAlertEmail without an emailId: greeting, introduction, one block
\* per finding, then the closing parts; the trim of the text removes
\* nothing, as it starts with "Hello" and ends with the disclaimer
BuildAlertEmail(email, fs) ==
    [text |-> GreetingText(email) \o <<Lit("\n\n")>>
                \o AlertIntroText(Len(fs)) \o <<Lit("\n\n")>>
                \o FindingsText(fs, 1) \o ClosingText,
     html |-> <<Lit("<!DOCTYPE html>\n<html>\n<head>...</head>\n<body>\n  ")>>
                \o GreetingHtml(email) \o AlertIntroHtml(Len(fs))
                \o <<Lit("<div style=\"margin: 20px 0;\">")>>
                \o FindingsHtml(fs, 1) \o <<Lit("</div>")>> \o ClosingHtml
                \o <<Lit("\n</body>\n</html>")>>]

\* a subject that is always the default one
DispatchSubject_IgnoreOverride(r, custom, count) ==
    <<Lit("Alert: "), Val(NumberToString(count)), Lit(" Keyword Matches Detected")>>

\* the subject the route gives to sendAlertEmail: GET /api/alert has the
\* default only, POST /api/alert/send-email has customSubject || default
DispatchSubject(r, custom, count) ==
    IF r = "send-email" /\ custom # <<>>
    THEN <<Val(custom)>>
    ELSE <<Lit("Alert: "), Val(NumberToString(count)), Lit(" Keyword Matches Detected")>>

\* sendEmailViaSMTP up to transporter.sendMail with the subject checks:
\* the mailOptions, or a throw
MailOptions(subject, content, address, smtpConfigured) ==
    LET blank == \A i \in DOMAIN subject :
                    /\ subject[i].lit = ""
                    /\ \A j \in DOMAIN subject[i].val : IsSpace(subject[i].val[j])
    IN  IF blank \/ SendEmailViaSMTP(address, smtpConfigured) = "threw"
        THEN [threw |-> TRUE, mail |-> <<>>]
        ELSE [threw |-> FALSE,
              mail |-> <<[to |-> address, subject |-> subject, text |-> content.text,
                          html |-> content.html]>>]

\* sendAlertEmail({subject, recipients: [email], findings, email}): one
\* set of bodies is built for the call and handed to sendEmailViaSMTP for
\* the one recipient of the call
SendAlertEmail(subject, email, fs, smtpConfigured) ==
    MailOptions(subject, BuildAlertEmail(email, fs), email, smtpConfigured)

\* addresses of a dispatch, in the order of ORDER BY email_address; the
\* last one has no "@"
MailAddresses == << <<"a",".","b","@","x">>, <<"a","@","x">>, <<"a","@","y">>, <<"d">> >>

\* the emailAddresses arrays of a dispatch: the rows of the email table,
\* or the one test address
MailRecipientLists ==
    { LET In(i) == i \in S
          idx   == SelectSeq([i \in DOMAIN MailAddresses |-> i], In)
      IN  [k \in DOMAIN idx |-> MailAddresses[idx[k]]] :
        S \in { T \in SUBSET (DOMAIN MailAddresses) :
                  Cardinality(T) >= 1 /\ Cardinality(T) <= MaxRecipients } }

\* one keyword with its context
MatchSingle == [watchId |-> "w1", url |-> <<"u","1">>, title |-> <<"S">>,
                lastChanged |-> [kind |-> "iso", sec |-> Now - 3600],
                keywords |-> ExtractKeywordContexts(BodyMatch, <<KeywordBug>>)]

\* two keywords with their contexts, no title
MatchMultiple == [watchId |-> "w2", url |-> <<"u","2">>, title |-> <<>>,
                  lastChanged |-> [kind |-> "null", sec |-> 0],
                  keywords |-> ExtractKeywordContexts(TextBoth, <<KeywordBug, KeywordLeak>>)]

\* one keyword the extractor found no occurrence of: empty contexts
MatchBare == [watchId |-> "w3", url |-> <<"u","3">>, title |-> <<"T">>,
              lastChanged |-> [kind |-> "iso", sec |-> Now - 60],
              keywords |-> ExtractKeywordContexts(TextScript, <<KeywordBug>>)]

\* the non-empty matches arrays of a dispatch
MatchLists ==
    UNION { [1..n -> {MatchSingle, MatchMultiple, MatchBare}] : n \in 1..MaxFindings }

\* values of customSubject in the POST body
CustomSubjects == { <<>>, <<"H","i">>, <<" ">> }

MailInit ==
    /\ RequestIdle
    /\ TextIdle
    /\ LimiterIdle
    /\ route \in {"alert", "send-email"}
    /\ customSubject \in (IF route = "send-email" THEN CustomSubjects ELSE {<<>>})
    /\ dispatchMatches \in MatchLists
    /\ mailRecipients \in MailRecipientLists
    /\ findings = <<>>
    /\ outbox = <<>>
    /\ mailPc = "matches"

\* const findings = matches.map(...)
ConvertMatches ==
    /\ mailPc = "matches"
    /\ findings' = [i \in DOMAIN dispatchMatches |-> MatchToFinding(dispatchMatches[i])]
    /\ mailPc' = "findings"
    /\ UNCHANGED <<route, customSubject, dispatchMatches, mailRecipients, outbox>>
    /\ UNCHANGED <<requestVars, pc, response, scanVars, dispatchVars, ioVars>>
    /\ UNCHANGED <<textVars, limiterVars>>

\* emailAddresses.map(async (email) => sendAlertEmail(...)): every callback
\* runs up to transporter.sendMail before the first one resumes
StartDispatch ==
    /\ mailPc = "findings"
    /\ \E smtpConfigured \in BOOLEAN :
          LET subject == DispatchSubject(route, customSubject, Len(dispatchMatches))
              sent    == [i \in DOMAIN mailRecipients |->
                             SendAlertEmail(subject, mailRecipients[i], findings,
                                            smtpConfigured).mail]
          IN  outbox' = Join(sent, <<>>)
    /\ mailPc' = "sent"
    /\ UNCHANGED <<route, customSubject, dispatchMatches, mailRecipients, findings>>
    /\ UNCHANGED <<requestVars, pc, response, scanVars, dispatchVars, ioVars>>
    /\ UNCHANGED <<textVars, limiterVars>>

MailNext ==
    \/ ConvertMatches
    \/ StartDispatch

MailSpec == MailInit /\ [][MailNext]_vars

(***************************************************************************)
(* Properties.                                                             *)
(***************************************************************************)
\* the ScanResult holds a report of the watch w
Reported(w) == \E k \in DOMAIN matches : matches[k].watchId = w

\* the scan has returned a ScanResult and the handler has not yet used it
ScanReturned == pc = "scanned" /\ scanResult.status = "returned"

\* the snapshot request of w failed or gave no snapshot
SnapshotMissing(w) ==
    \/ snapshots[w].kind \in {"neterr", "notok"}
    \/ snapshots[w].kind = "ok" /\ snapshots[w].body = <<>>

\* the snapshot of w is present and matches at least one keyword
SnapshotMatching(w) ==
    /\ snapshots[w].kind = "ok"
    /\ snapshots[w].body # <<>>
    /\ FindKeywordsInText(snapshots[w].body, keywords) # <<>>

\* C1: batch isolation.  A watch whose snapshot request failed or gave no
\* snapshot is skipped: it has no report, and its failure never makes the
\* scan throw; the ScanResult still holds a report of every other watch
\* whose snapshot is present and matches a keyword.
C1_BatchIsolation ==
    /\ ScanReturned =>
          \A w \in DOMAIN watches :
             /\ SnapshotMissing(w) => ~Reported(w)
             /\ SnapshotMatching(w) => Reported(w)
    /\ (pc = "scanned" /\ scanResult.message = "watch callback error") =>
          \E w \in DOMAIN task :
             task[w] = "threw" /\ snapshots[w].kind \notin {"neterr", "notok"}

C1_Witness ==
    /\ ScanReturned
    /\ \E v, w \in DOMAIN watches :
          /\ v < w
          /\ snapshots[v].kind = "neterr"
          /\ SnapshotMatching(w)
          /\ Reported(w)

\* number of calls of sendEmailViaSMTP for the address a
SendCallCount(a) == Cardinality({ k \in DOMAIN sendCalls : sendCalls[k] = a })

\* number of messages handed to the transport for the address a
MailCallCount(a) == Cardinality({ k \in DOMAIN mailCalls : mailCalls[k].to = a })

\* C2: dispatch isolation.  Once a dispatch has its recipients, a send has
\* been attempted for every recipient exactly once, whichever sends fail,
\* and no recipient is handed to the mail transport twice.
C2_DispatchIsolation ==
    emailAddresses # <<>> =>
       /\ Len(sendCalls) = Len(emailAddresses)
       /\ \A i \in DOMAIN emailAddresses :
             /\ SendCallCount(emailAddresses[i]) = 1
             /\ MailCallCount(emailAddresses[i]) <= 1
             /\ send[i] = "sent" => MailCallCount(emailAddresses[i]) = 1

C2_Witness ==
    /\ pc = "done"
    /\ Len(emailAddresses) = 3
    /\ send[1] = "sent"
    /\ send[2] = "failed"
    /\ send[3] = "sent"
    /\ \A i \in 1..3 : SendCallCount(emailAddresses[i]) = 1

\* C3: dispatch tally.  A dispatch that has started its sends never fails:
\* it answers 200 with sent = number of sends that succeeded, failed =
\* number that failed, total = number of recipients.
C3_DispatchTally ==
    (pc = "done" /\ emailAddresses # <<>>) =>
       /\ response.status = 200
       /\ response.emailsSent = Cardinality({ i \in DOMAIN send : send[i] = "sent" })
       /\ response.emailsFailed = Cardinality({ i \in DOMAIN send : send[i] = "failed" })
       /\ response.totalEmails = Len(emailAddresses)
       /\ response.emailsSent + response.emailsFailed = response.totalEmails

C3_Witness ==
    /\ pc = "done"
    /\ Len(emailAddresses) = 3
    /\ \A i \in 1..3 : MailCallCount(emailAddresses[i]) = 1
    /\ response.emailsSent = 2
    /\ response.emailsFailed = 1
    /\ response.totalEmails = 3

\* C4: once the keyword load and the watch-list request have succeeded the
\* scan never fails: a scan throws only for a failed keyword load or a
\* failed watch-list request.
C4_ScanNeverFailsAfterFetch ==
    (pc = "scanned" /\ scanResult.status = "threw") =>
       \/ keywordReply = "error"
       \/ watchListReply \in WatchListFailures

\* C5: scan skip policy.  A watch whose error state is set has no report and
\* no snapshot request, whatever its last_changed, the recent flag and the
\* snapshots.
C5_ErrorWatchSkipped ==
    \A w \in DOMAIN watches :
       (~watches[w].isNull /\ watches[w].last_error) =>
          /\ ~Reported(w)
          /\ \A k \in DOMAIN snapshotCalls : snapshotCalls[k] # w
          /\ snapshots[w].kind = "none"

C5_Witness ==
    /\ ScanReturned
    /\ \E v, w \in DOMAIN watches :
          /\ watches[v].last_error
          /\ watches[v].last_changed = [kind |-> "num", sec |-> Now - hours.v * 3600]
          /\ ~Reported(v)
          /\ Reported(w)

\* the cutoff of the recency filter: now - lookbackHours * 3600
Cutoff == Now - hours.v * 3600

\* a snapshot request was issued for the watch w
SnapshotRequested(w) == \E k \in DOMAIN snapshotCalls : snapshotCalls[k] = w

\* C6: scan recency filter.  With the recent flag a watch whose last_changed
\* is absent or earlier than the cutoff is skipped, one at or after the
\* cutoff is kept, and a reported watch has a last_changed at or after the
\* cutoff; without the flag last_changed excludes no watch.
C6_RecencyFilter ==
    \A w \in DOMAIN watches :
       ~watches[w].isNull =>
          LET lc == watches[w].last_changed
          IN  /\ (checkRecent /\ (lc.kind = "absent" \/ (lc.kind = "num" /\ lc.sec < Cutoff)))
                    => (~SnapshotRequested(w) /\ ~Reported(w))
              /\ (checkRecent /\ lc.kind = "num" /\ lc.sec >= Cutoff /\ ~watches[w].last_error)
                    => SnapshotRequested(w)
              /\ (checkRecent /\ Reported(w)) => (lc.kind = "num" /\ lc.sec >= Cutoff)
              /\ (~checkRecent /\ ~watches[w].last_error) => SnapshotRequested(w)
              /\ (ScanReturned /\ SnapshotRequested(w) /\ SnapshotMatching(w)) => Reported(w)

C6_Witness ==
    /\ ScanReturned
    /\ checkRecent
    /\ hours.v = 24
    /\ \E v, w \in DOMAIN watches :
          /\ watches[v].last_changed = [kind |-> "num", sec |-> Now - 24 * 3600 - 1]
          /\ ~watches[v].last_error
          /\ ~Reported(v)
          /\ watches[w].last_changed = [kind |-> "num", sec |-> Now - 24 * 3600]
          /\ Reported(w)

\* C7: every report of the matches array has a non-empty keywords list, and
\* a watch whose snapshot matches no keyword has no report.
C7_ReportsNonEmpty ==
    /\ \A k \in DOMAIN matches : Len(matches[k].keywords) >= 1
    /\ \A w \in DOMAIN watches :
          (snapshots[w].kind = "ok"
             /\ FindKeywordsInText(snapshots[w].body, keywords) = <<>>) => ~Reported(w)

C7_Witness ==
    /\ ScanReturned
    /\ \E v, w \in DOMAIN watches :
          /\ snapshots[v] = [kind |-> "ok", body |-> BodyNone]
          /\ ~Reported(v)
          /\ Reported(w)
          /\ \A k \in DOMAIN matches : Len(matches[k].keywords) >= 1

\* C8: empty keyword list short-circuit.  When the keyword query returns no
\* row the scan returns "No keywords found in database" with no match and
\* without any request to the registry, and the endpoint answers 200.
C8_EmptyKeywordShortCircuit ==
    (keywordReply = "rows" /\ keywords = <<>>) =>
       /\ pc \in {"scanned", "done"}
       /\ scanResult = [status |-> "returned", message |-> "No keywords found in database"]
       /\ matches = <<>>
       /\ watchListCalls = 0
       /\ watchListReply = "none"
       /\ snapshotCalls = <<>>
       /\ pc = "done" =>
             /\ response.status = 200
             /\ endpoint = "check" => response.message = "No keywords found in database"

C8_Witness ==
    /\ pc = "done"
    /\ endpoint = "check"
    /\ keywordReply = "rows"
    /\ keywords = <<>>
    /\ watchListCalls = 0
    /\ response.message = "No keywords found in database"

\* C9: a failed watch-list request is a failure of the scan.  When the
\* registry is unreachable, answers a non-success status or an unparsable
\* body, the scan throws without a ScanResult, no snapshot is requested,
\* and the endpoint answers 500 without querying recipients or sending mail.
C9_WatchListFailureIsScanLevel ==
    watchListReply \in {"unreachable", "notok", "unparsable"} =>
       /\ pc \in {"scanned", "done"}
       /\ scanResult.status = "threw"
       /\ matches = <<>>
       /\ snapshotCalls = <<>>
       /\ emailQueries = 0
       /\ sendCalls = <<>>
       /\ mailCalls = <<>>
       /\ pc = "done" => response.status = 500

C9_Witness ==
    /\ pc = "done"
    /\ endpoint = "alert"
    /\ watchListReply = "unparsable"
    /\ response.status = 500
    /\ mailCalls = <<>>

\* C10: a lookback-hours value that is not a number or lies outside
\* [1, 720] is rejected with status 400 before any I/O: no keyword query,
\* no registry request, no email query and no send.
C10_InvalidHoursNoIO ==
    (hours.nan \/ hours.v < 1 \/ hours.v > 720) =>
       /\ keywordQueries = 0
       /\ watchListCalls = 0
       /\ snapshotCalls = <<>>
       /\ emailQueries = 0
       /\ sendCalls = <<>>
       /\ mailCalls = <<>>
       /\ pc \in {"start", "done"}
       /\ pc = "done" => response.status = 400

C10_Witness ==
    /\ pc = "done"
    /\ ~hours.nan
    /\ hours.v = 721
    /\ hasApiKey
    /\ response.status = 400
    /\ keywordQueries = 0

\* the scan of GET /api/alert has returned and the handler has gone past it
Dispatched == endpoint = "alert" /\ scanResult.status = "returned"
                 /\ pc \in {"emails", "sending", "done"}

\* C11: no-match silence.  When the scan returns no match, GET /api/alert
\* answers 200 "No matches found, no emails sent" in the step that receives
\* the scan, without querying the email table and without any send.
C11_NoMatchSilence ==
    (Dispatched /\ matches = <<>>) =>
       /\ pc = "done"
       /\ response = Reply(200, "No matches found, no emails sent")
       /\ emailQueries = 0
       /\ emailReply = "none"
       /\ emailAddresses = <<>>
       /\ sendCalls = <<>>
       /\ mailCalls = <<>>

C11_Witness ==
    /\ Dispatched
    /\ ~testMode
    /\ keywords # <<>>
    /\ watchListReply = "ok"
    /\ snapshotCalls # <<>>
    /\ matches = <<>>
    /\ response.status = 200
    /\ emailQueries = 0

\* C12 as stated: a failed email query aborts the dispatch with a failure
\* and no send, and it is the only way a dispatch with matches fails as a
\* whole.
C12_OnlyEnumerationFailureFails ==
    (Dispatched /\ pc = "done" /\ matches # <<>>) =>
       /\ emailReply = "error" =>
             (response.status = 500 /\ sendCalls = <<>> /\ mailCalls = <<>>)
       /\ response.status # 200 => emailReply = "error"

\* C12, amended: a dispatch with matches fails as a whole exactly when the
\* email query fails (500) or returns no address (404); in both cases no
\* send is made, and every other dispatch answers 200 with its tally.
C12_EnumerationFailureAborts ==
    (Dispatched /\ pc = "done" /\ matches # <<>>) =>
       /\ emailReply = "error" =>
             /\ response = Reply(500, "Failed to fetch email addresses from database")
             /\ emailAddresses = <<>>
             /\ sendCalls = <<>>
             /\ mailCalls = <<>>
       /\ (emailReply = "rows" /\ emailAddresses = <<>>) =>
             /\ response = Reply(404, "No email addresses found in database")
             /\ sendCalls = <<>>
             /\ mailCalls = <<>>
       /\ response.status # 200 <=>
             (emailReply = "error" \/ (emailReply = "rows" /\ emailAddresses = <<>>))

C12_Witness ==
    /\ Dispatched
    /\ pc = "done"
    /\ matches # <<>>
    /\ emailQueries = 1
    /\ emailReply = "error"
    /\ response.status = 500
    /\ sendCalls = <<>>

\* C19 as stated: fetchLatestSnapshot returns "absent" for a non-success
\* status and fails, instead of returning "absent", on a network or
\* protocol failure.
C19_SnapshotFailureDistinguished ==
    \A w \in DOMAIN snapshots :
       /\ snapshots[w].kind = "notok" => task[w] = "nosnapshot"
       /\ snapshots[w].kind = "neterr" => task[w] = "threw"

\* C19, amended: fetchLatestSnapshot does not distinguish its two negative
\* outcomes: it returns "absent" both for a non-success status and for a
\* network or protocol failure, and never fails; the watch is skipped
\* without a report in both cases.
C19_SnapshotFailureIsAbsent ==
    \A w \in DOMAIN snapshots :
       /\ snapshots[w].kind \in {"notok", "neterr"} =>
             (task[w] = "nosnapshot" /\ ~Reported(w))
       /\ task[w] = "threw" => snapshots[w].kind \notin {"notok", "neterr"}

C19_Witness ==
    /\ ScanReturned
    /\ \E v, w \in DOMAIN snapshots :
          /\ snapshots[v].kind = "notok"
          /\ snapshots[w].kind = "neterr"
          /\ task[v] = "nosnapshot"
          /\ task[w] = "nosnapshot"

\* C20: the watch-list request of a scan is bounded in time: a scan that is
\* waiting for the registry's watch list eventually stops waiting, also
\* when the registry never answers.
C20_WatchListCallBounded == (pc = "watches") ~> (pc # "watches")

(***************************************************************************)
(* Properties of the text matcher, under TextSpec.                         *)
(***************************************************************************)
Ellipsis == <<".", ".", ".">>

\* 0-based positions where kw occurs in s, compared without regard to case
Occurrences(s, kw) ==
    { i \in 0..(Len(s) - Len(kw)) :
        \A j \in 1..Len(kw) : ToLowerChar(s[i + j]) = ToLowerChar(kw[j]) }

Contains(s, kw) == Occurrences(s, kw) # {}

\* findKeywordsInText has returned
MatcherReturned == textPc \in {"matched", "extracted"}

\* extractKeywordContexts has returned
ExtractorReturned == textPc = "extracted"

\* C13: findKeywordsInText returns only keywords whose literal lower-cased
\* text occurs in the tag-stripped, whitespace-collapsed, lower-cased text,
\* keywords with leading, trailing or only whitespace included.
C13_OnlyLiteralKeywords ==
    MatcherReturned =>
       \A i \in DOMAIN matchedKeywords :
          Contains(MatchText(snapshotText), matchedKeywords[i].keyword)

\* C14: a keyword that occurs only inside a script or style block of the
\* text is not returned by findKeywordsInText: every keyword it returns
\* occurs in the text with the script and style blocks removed.
C14_ScriptContentsIgnored ==
    MatcherReturned =>
       \A i \in DOMAIN matchedKeywords :
          Contains(CleanText(snapshotText), Trim(matchedKeywords[i].keyword))

\* C15: for every keyword matched in the text the plain context has at most
\* 2 * 100 + len(keyword) + 6 characters and contains the keyword, compared
\* without regard to case.
C15_ContextBounded ==
    ExtractorReturned =>
       \A i \in DOMAIN keywordMatches :
          /\ Len(keywordMatches[i].context)
                <= 2 * ContextRadius + Len(keywordMatches[i].keyword) + 6
          /\ Contains(keywordMatches[i].context, keywordMatches[i].keyword)

\* the context window the claims describe, for a keyword kw that occurs in
\* the normalised text clean
ExpectedContext(clean, kw) ==
    LET first  == Least(Occurrences(clean, kw))
        after  == Len(clean) - (first + Len(kw))
        from   == IF first > ContextRadius THEN first - ContextRadius ELSE 0
        to     == IF after > ContextRadius THEN first + Len(kw) + ContextRadius ELSE Len(clean)
    IN  (IF first > ContextRadius THEN Ellipsis ELSE <<>>)
          \o SubSeq(clean, from + 1, to)
          \o (IF after > ContextRadius THEN Ellipsis ELSE <<>>)

\* C16: context window markers.  For a keyword that occurs in the
\* normalised text, the plain context is the normalised text from 100
\* characters before the first occurrence to 100 characters after it, with
\* "..." in front exactly when the occurrence starts more than 100
\* characters into the text and "..." behind exactly when more than 100
\* characters follow it.
C16_ContextMarkers ==
    ExtractorReturned =>
       \A i \in DOMAIN keywordMatches :
          LET clean == CleanText(snapshotText)
              kw    == keywordMatches[i].keyword
          IN  Contains(clean, kw) =>
                 keywordMatches[i].context = ExpectedContext(clean, kw)

C16_Witness ==
    /\ ExtractorReturned
    /\ \E i \in DOMAIN keywordMatches :
          LET c == keywordMatches[i].context
          IN  /\ Len(c) = 2 * ContextRadius + Len(keywordMatches[i].keyword) + 6
              /\ SubSeq(c, 1, 3) = Ellipsis
              /\ SubSeq(c, Len(c) - 2, Len(c)) = Ellipsis
    /\ \E i \in DOMAIN keywordMatches :
          /\ Contains(CleanText(snapshotText), keywordMatches[i].keyword)
          /\ Least(Occurrences(CleanText(snapshotText), keywordMatches[i].keyword))
                = ContextRadius
          /\ SubSeq(keywordMatches[i].context, 1, 3) # Ellipsis

\* positions in h where the marker m starts
MarkerStarts(h, m) == { p \in 1..(Len(h) - Len(m) + 1) : SubSeq(h, p, p + Len(m) - 1) = m }

\* h with every <mark> and </mark> deleted
RECURSIVE Unmark(_)
Unmark(h) ==
    LET starts == MarkerStarts(h, MarkOpen) \cup MarkerStarts(h, MarkClose)
    IN  IF starts = {} THEN h
        ELSE LET p == Least(starts)
                 n == IF p \in MarkerStarts(h, MarkOpen) THEN Len(MarkOpen) ELSE Len(MarkClose)
             IN  SubSeq(h, 1, p - 1) \o Unmark(SubSeq(h, p + n, Len(h)))

\* number of occurrences of kw in c, taken left to right without overlap
RECURSIVE CountOccurrences(_, _)
CountOccurrences(c, kw) ==
    IF ~Contains(c, kw) THEN 0
    ELSE 1 + CountOccurrences(
                SubSeq(c, Least(Occurrences(c, kw)) + Len(kw) + 1, Len(c)), kw)

\* C17: the highlighted context is the plain context with every occurrence
\* of the keyword (without regard to case, original casing kept) wrapped in
\* <mark>...</mark>: deleting the markers gives back the plain context,
\* there is one marker pair per occurrence, and each pair encloses the
\* keyword.
C17_HighlightWrapsKeyword ==
    ExtractorReturned =>
       \A i \in DOMAIN keywordMatches :
          keywordMatches[i].hasHighlightedContext =>
             LET h  == keywordMatches[i].highlightedContext
                 c  == keywordMatches[i].context
                 kw == keywordMatches[i].keyword
             IN  /\ Unmark(h) = c
                 /\ Cardinality(MarkerStarts(h, MarkOpen)) = CountOccurrences(c, kw)
                 /\ Cardinality(MarkerStarts(h, MarkClose)) = CountOccurrences(c, kw)
                 /\ \A p \in MarkerStarts(h, MarkOpen) :
                       /\ p + Len(MarkOpen) + Len(kw) \in MarkerStarts(h, MarkClose)
                       /\ 0 \in Occurrences(
                                  SubSeq(h, p + Len(MarkOpen), p + Len(MarkOpen) + Len(kw) - 1),
                                  kw)

C17_Witness ==
    /\ ExtractorReturned
    /\ \E i \in DOMAIN keywordMatches :
          /\ keywordMatches[i].hasHighlightedContext
          /\ keywordMatches[i].keyword = KeywordBug.keyword
          /\ Cardinality(MarkerStarts(keywordMatches[i].highlightedContext, MarkOpen)) = 2
          /\ Contains(keywordMatches[i].highlightedContext,
                      MarkOpen \o <<"B","u","g">> \o MarkClose)
          /\ SubSeq(keywordMatches[i].context, 1, 3) = Ellipsis

\* a is b with some rows left out, the order kept
IsSubsequence(a, b) ==
    \E f \in [DOMAIN a -> DOMAIN b] :
       /\ \A i, j \in DOMAIN a : i < j => f[i] < f[j]
       /\ \A i \in DOMAIN a : a[i] = b[f[i]]

\* C18: extractKeywordContexts returns one KeywordMatch per keyword it is
\* given, in the order given, which is the order of the keyword list; and
\* the context of a keyword that occurs in the normalised text is built
\* around its first occurrence: the keyword's first occurrence in the
\* context is where the window puts the first occurrence in the text.
C18_OnePerKeywordFirstOccurrence ==
    ExtractorReturned =>
       /\ IsSubsequence(matchedKeywords, keywordList)
       /\ Len(keywordMatches) = Len(matchedKeywords)
       /\ \A i \in DOMAIN keywordMatches :
             /\ keywordMatches[i].keyword = matchedKeywords[i].keyword
             /\ keywordMatches[i].keywordId = matchedKeywords[i].id
             /\ LET clean == CleanText(snapshotText)
                    kw    == keywordMatches[i].keyword
                IN  Contains(clean, kw) =>
                       LET first == Least(Occurrences(clean, kw))
                       IN  /\ Contains(keywordMatches[i].context, kw)
                           /\ Least(Occurrences(keywordMatches[i].context, kw))
                                 = (IF first > ContextRadius
                                    THEN ContextRadius + Len(Ellipsis) ELSE first)

C18_Witness ==
    /\ ExtractorReturned
    /\ keywordList = <<KeywordLeak, KeywordPadded, KeywordBug>>
    /\ Len(keywordMatches) = 3
    /\ keywordMatches[1].keyword = KeywordLeak.keyword
    /\ keywordMatches[3].keyword = KeywordBug.keyword
    /\ Cardinality(Occurrences(CleanText(snapshotText), KeywordBug.keyword)) = 2
    /\ CountOccurrences(keywordMatches[3].context, KeywordBug.keyword) = 1

(***************************************************************************)
(* Properties of the dispatch, under MailSpec.                             *)
(***************************************************************************)
\* the sends of the dispatch have started
DispatchStarted == mailPc = "sent"

\* the pieces of a body after the first piece equal to closer
AfterPiece(body, closer) ==
    LET hits == { i \in DOMAIN body : body[i] = closer }
    IN  IF hits = {} THEN body ELSE SubSeq(body, Least(hits) + 1, Len(body))

\* the part of an address before its "@"
LocalPart(address) ==
    LET ats == { i \in DOMAIN address : address[i] = "@" }
    IN  IF ats = {} THEN address ELSE SubSeq(address, 1, Least(ats) - 1)

\* part occurs in body as consecutive pieces
ContainsPieces(body, part) ==
    \E i \in 0..(Len(body) - Len(part)) : SubSeq(body, i + 1, i + Len(part)) = part

\* C21 as stated: within one dispatch the bodies of any two messages are
\* identical, whatever the recipients' addresses.
C21_BodiesShared ==
    \A i, j \in DOMAIN outbox :
        /\ outbox[i].text = outbox[j].text
        /\ outbox[i].html = outbox[j].html

\* C21 amended: within one dispatch the bodies of any two messages are
\* identical after the greeting, and identical as a whole when the two
\* addresses have the same part before "@".
C21_BodiesSharedAfterGreeting ==
    \A i, j \in DOMAIN outbox :
        /\ AfterPiece(outbox[i].text, Lit(",")) = AfterPiece(outbox[j].text, Lit(","))
        /\ AfterPiece(outbox[i].html, Lit(",</p>")) = AfterPiece(outbox[j].html, Lit(",</p>"))
        /\ Len(AfterPiece(outbox[i].text, Lit(","))) < Len(outbox[i].text)
        /\ Len(AfterPiece(outbox[i].html, Lit(",</p>"))) < Len(outbox[i].html)
        /\ LocalPart(outbox[i].to) = LocalPart(outbox[j].to)
              => /\ outbox[i].text = outbox[j].text
                 /\ outbox[i].html = outbox[j].html

\* a dispatch of two findings with three messages: two of them with equal
\* bodies (a@x, a@y), the third with another greeting (a.b@x)
C21_Witness ==
    /\ DispatchStarted
    /\ Len(findings) = 2
    /\ Len(outbox) = 3
    /\ outbox[1].text # outbox[2].text
    /\ outbox[1].html # outbox[2].html
    /\ outbox[2].to # outbox[3].to
    /\ outbox[2].text = outbox[3].text

\* the first piece of the block of each finding, in the text and in the HTML
BlockOpeners ==
    { Lit("ALERT: Keyword \""), Lit("ALERT: "),
      Lit("<div><p><strong>ALERT:</strong> Keyword \"<strong>"),
      Lit("<div><p><strong>ALERT:</strong> Keywords ") }

\* the pieces of a body from each block opener to the next one
BlockStarts(body) == SelectSeq([i \in DOMAIN body |-> i], LAMBDA i : body[i] \in BlockOpeners)

BlockOf(body, k) ==
    LET starts == BlockStarts(body)
    IN  SubSeq(body, starts[k], IF k < Len(starts) THEN starts[k + 1] - 1 ELSE Len(body))

\* C22: every message has one block per finding in the order of the
\* findings, and the block of a finding with a non-empty context holds that
\* context in the text body and the highlighted context in the HTML body;
\* the block of a finding with an empty context has no context part.
C22_ContextInBlocks ==
    \A m \in DOMAIN outbox :
        /\ Len(BlockStarts(outbox[m].text)) = Len(findings)
        /\ Len(BlockStarts(outbox[m].html)) = Len(findings)
        /\ \A k \in DOMAIN findings :
              /\ ContainsPieces(BlockOf(outbox[m].text, k), <<Val(findings[k].url)>>)
              /\ ContainsPieces(BlockOf(outbox[m].html, k), <<Val(findings[k].url)>>)
              /\ IF IsEmptyString(findings[k].context)
                 THEN ~ContainsPieces(BlockOf(outbox[m].text, k), <<Lit("\nContext: \"")>>)
                 ELSE /\ ContainsPieces(BlockOf(outbox[m].text, k),
                                        <<Lit("\nContext: \"")>> \o findings[k].context)
                      /\ ContainsPieces(BlockOf(outbox[m].html, k),
                                        findings[k].highlightedContext)

\* C23: every message of a dispatch has the subject "Alert: <N> Keyword
\* Matches Detected" with N the number of matches, unless the caller gave a
\* non-empty customSubject, which is then the subject of every message.
C23_Subject ==
    \A m \in DOMAIN outbox :
        IF customSubject # <<>>
        THEN outbox[m].subject = <<Val(customSubject)>>
        ELSE outbox[m].subject = <<Lit("Alert: "), Val(NumberToString(Len(dispatchMatches))),
                                   Lit(" Keyword Matches Detected")>>

\* a POST dispatch with an override and two messages, both carrying it
C23_Witness ==
    /\ DispatchStarted
    /\ route = "send-email"
    /\ customSubject = <<"H","i">>
    /\ Len(dispatchMatches) = 2
    /\ Len(outbox) = 2
    /\ outbox[1].subject = <<Val(<<"H","i">>)>>
    /\ outbox[2].subject = <<Val(<<"H","i">>)>>

(***************************************************************************)
(* Properties of the alert handlers, under Spec and LiveSpec, continued.   *)
(***************************************************************************)
\* the request has bad caller input: hours out of range or not a number, a
\* test address without "@", or no x-api-key header
BadCallerInput ==
    \/ hours.nan
    \/ hours.v < 1
    \/ hours.v > 720
    \/ endpoint = "alert" /\ testMode /\ testEmail # <<>>
          /\ \A i \in DOMAIN testEmail : testEmail[i] # "@"
    \/ ~hasApiKey

\* the database or the registry failed: a failed query, a failed watch-list
\* request, or a watch-list entry that made its callback throw
UpstreamFailure ==
    \/ keywordReply = "error"
    \/ watchListReply \in WatchListFailures
    \/ emailReply = "error"
    \/ watchListReply = "ok" /\ scanResult = [status |-> "threw",
                                               message |-> "watch callback error"]

\* the successful outcomes without any match to report
NothingToReport ==
    \/ keywordReply = "rows" /\ keywords = <<>>
    \/ scanResult.status = "returned" /\ matches = <<>>

\* C24 as stated: every response is a 200 with a message (also for zero
\* matches and for zero keywords), a 4xx caused by bad caller input, or a
\* 5xx caused by an upstream or database failure.
C24_StatusMapping ==
    pc = "done" =>
       /\ response.status \in {200} \cup 400..499 \cup 500..599
       /\ response.message # ""
       /\ response.status \in 400..499 => BadCallerInput
       /\ response.status \in 500..599 => UpstreamFailure
       /\ (~BadCallerInput /\ NothingToReport) => response.status = 200

\* C24, amended: as stated, with one more cause of a 4xx: 404 when there
\* are matches and the email table holds no address.
C24_StatusMappingWithEmptyList ==
    pc = "done" =>
       /\ response.status \in {200, 400, 401, 404, 500}
       /\ response.message # ""
       /\ response.status \in {400, 401} => BadCallerInput
       /\ response.status = 404 =>
             (~BadCallerInput /\ matches # <<>> /\ emailReply = "rows" /\ emailAddresses = <<>>)
       /\ response.status = 500 => (~BadCallerInput /\ UpstreamFailure)
       /\ (~BadCallerInput /\ NothingToReport) => response.status = 200

\* a request with valid input and a match that is answered 404
C24_Witness ==
    /\ pc = "done"
    /\ ~BadCallerInput
    /\ matches # <<>>
    /\ emailReply = "rows"
    /\ response.status = 404

\* number of reports of the watch w in the ScanResult
ReportCount(w) == Cardinality({ k \in DOMAIN matches : matches[k].watchId = w })

\* C25: fan-out complete and order-independent.  Whatever the order in
\* which the snapshot requests complete, a ScanResult is returned only when
\* no per-watch task is still running, and it holds exactly one report for
\* each watch whose snapshot was requested, is present and matches a
\* keyword, and no other report.
C25_FanOutComplete ==
    ScanReturned =>
       /\ \A w \in DOMAIN task : task[w] # "fetching"
       /\ \A k \in DOMAIN matches : matches[k].watchId \in DOMAIN watches
       /\ \A w \in DOMAIN watches :
             ReportCount(w) = IF SnapshotRequested(w) /\ SnapshotMatching(w) THEN 1 ELSE 0

\* two matching watches whose snapshot requests completed in the reverse
\* order: the report of the second watch comes first
C25_Witness ==
    /\ ScanReturned
    /\ Len(watches) = 2
    /\ Len(matches) = 2
    /\ matches[1].watchId = 2
    /\ matches[2].watchId = 1

\* C26: test mode.  In a request with test=1 every message goes to the
\* address of the email parameter: the email table is not read and no
\* address of it is handed to sendEmailViaSMTP or to the mail transport.
C26_TestModeOnlyTestAddress ==
    (endpoint = "alert" /\ testMode) =>
       /\ emailQueries = 0
       /\ \A k \in DOMAIN sendCalls : sendCalls[k] = testEmail
       /\ \A k \in DOMAIN mailCalls : mailCalls[k].to = testEmail

(***************************************************************************)
(* Properties of the text matcher, under TextSpec, continued.              *)
(***************************************************************************)
\* the keyword row kw is among the rows findKeywordsInText returned
Matched(kw) == \E i \in DOMAIN matchedKeywords : matchedKeywords[i] = kw

\* extractKeywordContexts locates an occurrence of the keyword row kw in
\* the text
Located(text, kw) == ExtractKeywordContexts(text, <<kw>>)[1].context # <<>>

\* C27: the two normalisations agree on presence.  A keyword is returned by
\* findKeywordsInText exactly when extractKeywordContexts locates an
\* occurrence of it in the same text, so every KeywordMatch of a report has
\* a non-empty context and a highlighted context.
C27_NormalisationsAgree ==
    /\ MatcherReturned =>
          \A i \in DOMAIN keywordList :
             Matched(keywordList[i]) <=> Located(snapshotText, keywordList[i])
    /\ ExtractorReturned =>
          \A i \in DOMAIN keywordMatches :
             /\ keywordMatches[i].context # <<>>
             /\ keywordMatches[i].hasHighlightedContext
             /\ keywordMatches[i].highlightedContext # <<>>

(***************************************************************************)
(* The scan of GET /api/alert/check on its own, with the progress the      *)
(* claim about its termination assumes: the database and the registry      *)
(* answer every request in the end.                                        *)
(***************************************************************************)
ScanInit ==
    /\ endpoint = "check"
    /\ hours = ParseInt(<<"2","4">>)
    /\ \E recent \in RecentParams : checkRecent = ReadRecent(endpoint, recent)
    /\ testMode = FALSE
    /\ testEmail = <<>>
    /\ hasApiKey \in BOOLEAN
    /\ pc = "start"
    /\ RequestFresh
    /\ TextIdle
    /\ MailIdle
    /\ LimiterIdle

ScanNext ==
    \/ HandleRequest
    \/ KeywordsResponse
    \/ WatchesResponse
    \/ \E w \in 1..MaxWatches : SnapshotResponse(w)
    \/ CheckResponse

ScanLiveSpec ==
    /\ ScanInit
    /\ [][ScanNext]_vars
    /\ WF_vars(HandleRequest)
    /\ WF_vars(KeywordsResponse)
    /\ WF_vars(WatchesResponse)
    /\ WF_vars(\E w \in 1..MaxWatches : SnapshotResponse(w))
    /\ WF_vars(CheckResponse)

\* the scan waits for its per-watch tasks
ScanWaiting == pc = "tasks"

\* the scan has settled: it returned a ScanResult or threw
ScanSettled == pc \in {"scanned", "done"}

\* C28: scan termination.  Once the keyword load and the watch-list call
\* have completed and the snapshot requests are under way, the scan settles
\* in the end when every snapshot request completes; nothing but the
\* completion of a snapshot request ends the wait, and a ScanResult is
\* returned only when no snapshot request is pending.
C28_ScanTermination ==
    /\ ScanWaiting ~> ScanSettled
    /\ [][(ScanWaiting /\ ~ScanWaiting') =>
             \E w \in DOMAIN snapshots :
                snapshots[w].kind = "none" /\ snapshots'[w].kind # "none"]_vars
    /\ [](ScanReturned => \A w \in DOMAIN task : task[w] # "fetching")

\* a scan that waited for two snapshot requests and returned after both
C28_Witness ==
    /\ ScanReturned
    /\ Len(snapshotCalls) = 2
    /\ \A w \in DOMAIN snapshots : snapshots[w].kind # "none"
    /\ \E w \in DOMAIN snapshots : snapshots[w].kind = "neterr"

(***************************************************************************)
(* The rate limiter of the API middleware (middleware.ts).  Time is in     *)
(* milliseconds since the first request.                                   *)
(***************************************************************************)
RATE_LIMIT_MAX == 60

\* 60 * 1000
RATE_LIMIT_WINDOW_MS == 60000

\* number of times the clock advances
MaxTicks == 2

\* largest counter of the client that sends many requests
MaxCount == 62

\* largest counter of the client that sends "unknown"
MaxQuietCount == 2

\* by how much the clock advances between two requests
ClockSteps == { 1, RATE_LIMIT_WINDOW_MS }

\* largest counter of a key
CountCap(ip) == IF ip = "unknown" THEN MaxQuietCount ELSE MaxCount

\* a limiter whose window never ends
WindowPassed_Never(ipData, now) == FALSE

\* now - ipData.timestamp > RATE_LIMIT_WINDOW_MS
WindowPassed(ipData, now) == now - ipData.timestamp > RATE_LIMIT_WINDOW_MS

\* a limiter that lets one request more through
Middleware_LimitOffByOne(ipData, now, api) ==
    IF ~api THEN [entry |-> ipData, status |-> 200]
    ELSE IF ~ipData.present
    THEN [entry |-> [present |-> TRUE, count |-> 1, timestamp |-> now], status |-> 200]
    ELSE IF WindowPassed(ipData, now)
    THEN [entry |-> [present |-> TRUE, count |-> 1, timestamp |-> now], status |-> 200]
    ELSE [entry |-> [ipData EXCEPT !.count = ipData.count + 1],
          status |-> IF ipData.count + 1 > RATE_LIMIT_MAX + 1 THEN 429 ELSE 200]

\* middleware(request) for the entry ipData of the request's key: the entry
\* afterwards and the status (200 stands for NextResponse.next()).  A path
\* outside /api passes without a look at the Map; a first request and a
\* request after the window set the entry to count 1; any other request
\* increments the counter and is rejected when it exceeds RATE_LIMIT_MAX.
Middleware(ipData, now, api) ==
    IF ~api THEN [entry |-> ipData, status |-> 200]
    ELSE IF ~ipData.present
    THEN [entry |-> [present |-> TRUE, count |-> 1, timestamp |-> now], status |-> 200]
    ELSE IF WindowPassed(ipData, now)
    THEN [entry |-> [present |-> TRUE, count |-> 1, timestamp |-> now], status |-> 200]
    ELSE [entry |-> [ipData EXCEPT !.count = ipData.count + 1],
          status |-> IF ipData.count + 1 > RATE_LIMIT_MAX THEN 429 ELSE 200]

LimiterInit ==
    /\ RequestIdle
    /\ TextIdle
    /\ MailIdle
    /\ LimiterIdle

\* one request reaches the middleware
HandleApiRequest(ip, api) ==
    /\ Middleware(ipRequestCounts[ip], clock, api).entry.count <= CountCap(ip)
    /\ LET result    == Middleware(ipRequestCounts[ip], clock, api)
           newWindow == windowStart[ip] = -1 \/ clock > windowStart[ip] + RATE_LIMIT_WINDOW_MS
           passed    == IF result.status = 200 THEN 1 ELSE 0
       IN  /\ ipRequestCounts' = [ipRequestCounts EXCEPT ![ip] = result.entry]
           /\ lastRequest' = [ip |-> ip, api |-> api, time |-> clock,
                              status |-> result.status,
                              before |-> ipRequestCounts[ip].count]
           /\ IF ~api
              THEN UNCHANGED <<windowStart, admitted>>
              ELSE /\ windowStart' = IF newWindow THEN [windowStart EXCEPT ![ip] = clock]
                                     ELSE windowStart
                   /\ admitted' = [admitted EXCEPT
                                     ![ip] = IF newWindow THEN passed ELSE admitted[ip] + passed]
    /\ UNCHANGED <<clock, ticks>>
    /\ UNCHANGED <<requestVars, pc, response, scanVars, dispatchVars, ioVars>>
    /\ UNCHANGED <<textVars, mailVars>>

\* time passes between two requests
Tick ==
    /\ ticks < MaxTicks
    /\ \E d \in ClockSteps : clock' = clock + d
    /\ ticks' = ticks + 1
    /\ UNCHANGED <<ipRequestCounts, lastRequest, windowStart, admitted>>
    /\ UNCHANGED <<requestVars, pc, response, scanVars, dispatchVars, ioVars>>
    /\ UNCHANGED <<textVars, mailVars>>

LimiterNext ==
    \/ \E ip \in Clients, api \in BOOLEAN : HandleApiRequest(ip, api)
    \/ Tick

LimiterSpec == LimiterInit /\ [][LimiterNext]_vars

(***************************************************************************)
(* Properties of the rate limiter, under LimiterSpec.                      *)
(***************************************************************************)
\* the step is an API request of the key ip
ApiRequestOf(ip) == ipRequestCounts'[ip] # ipRequestCounts[ip]

\* the window of ip is open at the current time
WindowOpen(ip) == windowStart[ip] # -1 /\ clock <= windowStart[ip] + RATE_LIMIT_WINDOW_MS

\* C29: rate limiter bound.  For every key at most RATE_LIMIT_MAX requests
\* are let through within one window (the 60 seconds from the window's
\* first request); every further request of the key inside the window is
\* answered 429; and only an API request of the key itself changes its
\* counter.
C29_RateLimitBound ==
    /\ [](\A ip \in Clients : admitted[ip] <= 60)
    /\ [][\A ip \in Clients :
             /\ (ApiRequestOf(ip) /\ WindowOpen(ip) /\ admitted[ip] = 60)
                   => (lastRequest'.status = 429 /\ lastRequest'.ip = ip)
             /\ ApiRequestOf(ip) => (lastRequest'.ip = ip /\ lastRequest'.api)]_vars

\* the 61st request of a key within its window is rejected while the other
\* key has sent a request of its own
C29_Witness ==
    /\ admitted["203.0.113.7"] = 60
    /\ ipRequestCounts["203.0.113.7"].count = 61
    /\ lastRequest.ip = "203.0.113.7"
    /\ lastRequest.status = 429
    /\ ipRequestCounts["unknown"].present
    /\ ipRequestCounts["unknown"].count = 1

\* C30: rate limiter recovery.  A rejected request leaves the start of the
\* window as it is, and the first request of a key that arrives more than
\* 60 seconds after the start of its window is let through and sets the
\* counter to 1 and the start of the window to its own time, whatever the
\* counter was.
C30_RateLimitRecovery ==
    [][\A ip \in Clients :
          /\ (ApiRequestOf(ip) /\ lastRequest'.status = 429)
                => ipRequestCounts'[ip].timestamp = ipRequestCounts[ip].timestamp
          /\ (ApiRequestOf(ip) /\ windowStart[ip] # -1
                /\ clock > windowStart[ip] + 60000)
                => /\ lastRequest'.status = 200
                   /\ ipRequestCounts'[ip] = [present |-> TRUE, count |-> 1,
                                              timestamp |-> clock]]_vars

\* a key whose counter had passed the limit is let through again after the
\* window, with the counter back at 1
C30_Witness ==
    /\ lastRequest.ip = "203.0.113.7"
    /\ lastRequest.api
    /\ lastRequest.before > 60
    /\ lastRequest.status = 200
    /\ lastRequest.time = 60001
    /\ ipRequestCounts["203.0.113.7"] = [present |-> TRUE, count |-> 1, timestamp |-> 60001]

====
